---- MODULE Spec2Model ----
(***************************************************************************)
(* News-with-comments services: the API Gateway (two implementations, the  *)
(* handler functions of api-gateway/main.go and the App methods), the      *)
(* Comment Service, the Censor Service and the News Aggregator.            *)
(*                                                                         *)
(* Strings are sequences of one-character strings.  JSON values are        *)
(* tagged records.  An optional integer (a Go pointer to int) is a set:    *)
(* empty for nil, the singleton of its value otherwise.                    *)
(***************************************************************************)
EXTENDS Integers, Sequences, FiniteSets, TLC

VARIABLES
    comments,   \* Comment Service: rows of table comments
    nextId,     \* Comment Service: last id given out by AUTOINCREMENT
    now,        \* Comment Service: CURRENT_TIMESTAMP, in seconds
    cs,         \* Comment Service: the POST /comments request being handled
    gw,         \* Gateway: the request being handled
    gor,        \* Gateway: position of the two goroutines of GET /news/{id}
    ch          \* Gateway: the result channel of GET /news/{id}

vars == <<comments, nextId, now, cs, gw, gor, ch>>

(***************************************************************************)
(* Bounds of the model.                                                    *)
(***************************************************************************)
\* ids the Comment Service may give out
MaxComments == 2
\* the last second of the clock
MaxClock == 1
\* rows the table may already hold when the Comment Service starts
MaxStored == 11

(***************************************************************************)
(* Program constants.                                                      *)
(***************************************************************************)
StatusOK == 200
StatusBadRequest == 400
StatusNotFound == 404
StatusInternalServerError == 500
\* the News Aggregator's catalog holds the articles 1..NumNews
NumNews == 5
\* page_size of GET /comments when the query gives none
DefaultPageSize == 10
\* the longest text the Comment Service stores, in bytes
MaxTextLen == 1000
\* page_size of GET /news when the query gives none or an unusable one
DefaultNewsPageSize == 10
\* the largest page_size App.GetNews forwards
MaxPageSize == 100
\* the longest search string App.GetNews forwards
MaxSearchLen == 100
\* total and page_count of the pagination block App.GetNews writes
AppTotal == 100
AppPageCount == 10
\* capacity of the result channel of GET /news/{id}
ChanCap == 2

(***************************************************************************)
(* Strings.                                                                *)
(***************************************************************************)
DigitVal == ("0" :> 0) @@ ("1" :> 1) @@ ("2" :> 2) @@ ("3" :> 3) @@ ("4" :> 4)
            @@ ("5" :> 5) @@ ("6" :> 6) @@ ("7" :> 7) @@ ("8" :> 8) @@ ("9" :> 9)

DigitChar == <<"0", "1", "2", "3", "4", "5", "6", "7", "8", "9">>

RECURSIVE DigitsValue(_)
DigitsValue(s) ==
    IF s = <<>> THEN 0
    ELSE 10 * DigitsValue(SubSeq(s, 1, Len(s) - 1)) + DigitVal[s[Len(s)]]

AllDigits(s) == s # <<>> /\ \A i \in 1..Len(s) : s[i] \in DOMAIN DigitVal

\* strconv.Atoi: an optional sign and decimal digits; anything else is an error
Atoi(s) ==
    IF s # <<>> /\ s[1] \in {"-", "+"}
    THEN IF AllDigits(Tail(s))
         THEN [val |-> (IF s[1] = "-" THEN -1 ELSE 1) * DigitsValue(Tail(s)), err |-> FALSE]
         ELSE [val |-> 0, err |-> TRUE]
    ELSE IF AllDigits(s)
         THEN [val |-> DigitsValue(s), err |-> FALSE]
         ELSE [val |-> 0, err |-> TRUE]

UpperToLower ==
    ("Q" :> "q") @@ ("W" :> "w") @@ ("E" :> "e") @@ ("R" :> "r") @@ ("T" :> "t")
    @@ ("Y" :> "y") @@ ("Z" :> "z") @@ ("X" :> "x") @@ ("V" :> "v") @@ ("B" :> "b")
    @@ ("N" :> "n") @@ ("M" :> "m") @@ ("H" :> "h") @@ ("I" :> "i")
    @@ ("U+0419" :> "U+0439") @@ ("U+0426" :> "U+0446") @@ ("U+0423" :> "U+0443")
    @@ ("U+041A" :> "U+043A") @@ ("U+0415" :> "U+0435") @@ ("U+041D" :> "U+043D")

\* strings.ToLower
ToLower(s) == [i \in 1..Len(s) |-> IF s[i] \in DOMAIN UpperToLower THEN UpperToLower[s[i]] ELSE s[i]]

\* strings.Contains
Contains(s, sub) ==
    \E i \in 0..(Len(s) - Len(sub)) : SubSeq(s, i + 1, i + Len(sub)) = sub

\* the letters of the model's texts that take two bytes in UTF-8
TwoByteChars ==
    {"U+0439", "U+0446", "U+0443", "U+043A", "U+0435", "U+043D",
     "U+0419", "U+0426", "U+0423", "U+041A", "U+0415", "U+041D"}

\* len(s) of a Go string: the number of bytes of its UTF-8 encoding
ByteLen(s) == Len(s) + Cardinality({ i \in 1..Len(s) : s[i] \in TwoByteChars })

(***************************************************************************)
(* JSON values.                                                            *)
(***************************************************************************)
Null == [t |-> "null"]
Absent == [t |-> "absent"]
Num(n) == [t |-> "num", n |-> n]
Str(s) == [t |-> "str", s |-> s]
Obj(o) == [t |-> "obj", o |-> o]
Arr(a) == [t |-> "arr", a |-> a]

\* m[k].(float64) and m[k].(string) of a decoded JSON object succeed
IsNum(o, k) == k \in DOMAIN o /\ o[k].t = "num"
IsStr(o, k) == k \in DOMAIN o /\ o[k].t = "str"

\* time.Time as JSON (RFC 3339) of second t, and time.Parse of it
TimeJSON(t) == Str(<<"T", DigitChar[(t \div 10) + 1], DigitChar[(t % 10) + 1]>>)
ParseTime(s) == 10 * DigitVal[s[2]] + DigitVal[s[3]]

\* struct Pagination as JSON
Pagination(page, pageSize, total, pageCount) ==
    [t |-> "pagination", page |-> page, page_size |-> pageSize, total |-> total,
     page_count |-> pageCount]

(***************************************************************************)
(* A downstream reply as the Gateway's HTTP client sees it: err is a       *)
(* transport error (connection refused, timeout); json says whether the    *)
(* body decodes as a Response envelope; status, data and pagination are    *)
(* the envelope's fields.                                                  *)
(***************************************************************************)
Reply(code, json, data) ==
    [err |-> FALSE, code |-> code, json |-> json,
     status |-> IF json THEN "success" ELSE "none", data |-> data, pagination |-> Absent]
TransportError ==
    [err |-> TRUE, code |-> 0, json |-> FALSE, status |-> "none", data |-> Null,
     pagination |-> Absent]
\* http.Error: a text/plain body
TextReply(code) == Reply(code, FALSE, Null)
\* sendError: a Response envelope with status "error" and no data
ErrorEnvelope(code) == [Reply(code, TRUE, Null) EXCEPT !.status = "error"]
\* a success envelope with a pagination block
PagedReply(data, pagination) ==
    [Reply(StatusOK, TRUE, data) EXCEPT !.pagination = pagination]

(***************************************************************************)
(* News Aggregator.                                                        *)
(***************************************************************************)
\* one article of the fixed catalog, as JSON
NewsItem(n) ==
    Obj([id |-> Num(n),
         title |-> Str(<<"N", DigitChar[n + 1]>>),
         content |-> Str(<<"C", DigitChar[n + 1]>>),
         created_at |-> TimeJSON(0)])

\* containsIgnoreCase
containsIgnoreCase(s, substr) == Contains(ToLower(s), ToLower(substr))

Min(a, b) == IF a < b THEN a ELSE b

\* Go's int is 64 bits wide; the model's int has IntBits bits and wraps in the
\* same way
IntBits == 12
MaxInt == 2^(IntBits - 1) - 1
Wrap(x) == ((x + 2^(IntBits - 1)) % 2^IntBits) - 2^(IntBits - 1)

AllNews == [n \in 1..NumNews |-> NewsItem(n)]

\* the articles whose title or content contains the search string
FilterNews(search) ==
    LET matches(item) == \/ containsIgnoreCase(item.o["title"].s, search)
                         \/ containsIgnoreCase(item.o["content"].s, search)
    IN  IF search # <<>> THEN SelectSeq(AllNews, matches) ELSE AllNews

\* the / of Go on ints: the quotient is truncated toward zero
GoDiv(a, b) == IF a >= 0 THEN a \div b ELSE -((-a) \div b)

\* GET /news?page=&page_size=&search= of the News Aggregator: filter the
\* catalog by the search string, cut the page out, count the pages. A slice
\* expression with a negative bound or with end < start panics, and
\* middleware.Recoverer answers 500.
GetNewsHandler(pageArg, pageSizeArg, search) ==
    LET page == IF pageArg <= 0 THEN 1 ELSE pageArg
        pageSize == IF pageSizeArg <= 0 THEN DefaultNewsPageSize ELSE pageSizeArg
        filteredNews == FilterNews(search)
        start0 == Wrap((page - 1) * pageSize)
        start == IF start0 >= Len(filteredNews) THEN Len(filteredNews) ELSE start0
        end0 == Wrap(start + pageSize)
        end == IF end0 > Len(filteredNews) THEN Len(filteredNews) ELSE end0
        total == Len(filteredNews)
        \* a nil slice (no article matches) is encoded as null
        data == IF filteredNews = <<>> THEN Null
                ELSE Arr(SubSeq(filteredNews, start + 1, end))
    IN  IF start < 0 \/ end < start
        THEN TextReply(StatusInternalServerError)
        ELSE PagedReply(data, Pagination(page, pageSize, total,
                                         GoDiv(Wrap(total + pageSize - 1), pageSize)))

\* GET /news/{id}: the article, or 404 as text/plain
GetNewsByIDHandler(id) ==
    IF id \in 1..NumNews
    THEN Reply(StatusOK, TRUE, NewsItem(id))
    ELSE TextReply(StatusNotFound)

(***************************************************************************)
(* Censor Service.                                                         *)
(***************************************************************************)
bannedWords ==
    { <<"q", "w", "e", "r", "t", "y">>,
      <<"U+0439", "U+0446", "U+0443", "U+043A", "U+0435", "U+043D">>,
      <<"z", "x", "v", "b", "n", "m">> }

\* the regular expression is the alternation of the quoted banned words
isBanned(text) == \E w \in bannedWords : Contains(ToLower(text), w)

\* POST /check of the Censor Service
CheckHandler(text) ==
    IF isBanned(text)
    THEN TextReply(StatusBadRequest)
    ELSE Reply(StatusOK, TRUE, Str(<<"o", "k">>))

(***************************************************************************)
(* Comment Service.                                                        *)
(***************************************************************************)
\* a row of table comments as the JSON of struct Comment (parent_id omitempty)
CommentJSON(row) ==
    Obj([k \in {"id", "news_id", "text", "created_at"}
               \cup (IF row.parent_id = {} THEN {} ELSE {"parent_id"}) |->
            CASE k = "id" -> Num(row.id)
              [] k = "news_id" -> Num(row.news_id)
              [] k = "text" -> Str(row.text)
              [] k = "created_at" -> TimeJSON(row.created_at)
              [] k = "parent_id" -> Num(CHOOSE p \in row.parent_id : TRUE)])

\* SELECT EXISTS(SELECT 1 FROM comments WHERE id = ?)
Exists(id) == \E r \in comments : r.id = id

\* ValidateCreate without the check that the parent exists
ValidateCreate_NoParentCheck(req) ==
    IF req.news_id <= 0 THEN StatusBadRequest
    ELSE IF ByteLen(req.text) = 0 THEN StatusBadRequest
    ELSE IF ByteLen(req.text) > MaxTextLen THEN StatusBadRequest
    ELSE StatusOK

\* the validation of POST /comments up to the parent check: the status of the
\* rejection, or StatusOK when the request goes on to the INSERT
ValidateCreate(req) ==
    IF req.news_id <= 0 THEN StatusBadRequest
    ELSE IF ByteLen(req.text) = 0 THEN StatusBadRequest
    ELSE IF ByteLen(req.text) > MaxTextLen THEN StatusBadRequest
    ELSE IF \E p \in req.parent_id : ~Exists(p) THEN StatusBadRequest
    ELSE StatusOK

\* the orders in which SELECT ... ORDER BY created_at DESC may return rows:
\* a latest row first, then the others; rows of one second come in any order
RECURSIVE OrderedByCreatedAtDesc(_)
OrderedByCreatedAtDesc(rows) ==
    IF rows = {} THEN { <<>> }
    ELSE UNION { { <<r>> \o s : s \in OrderedByCreatedAtDesc(rows \ {r}) }
                 : r \in { x \in rows : \A y \in rows : x.created_at >= y.created_at } }

\* LIMIT n OFFSET off
LimitOffset(s, n, off) ==
    SubSeq(s, off + 1, IF off + n < Len(s) THEN off + n ELSE Len(s))

\* GetCommentsHandler that selects the rows of every article
GetCommentsHandler_AllArticles(newsID) ==
    { LET page == LimitOffset(s, DefaultPageSize, 0)
      IN  PagedReply(IF page = <<>> THEN Null
                     ELSE Arr([i \in 1..Len(page) |-> CommentJSON(page[i])]),
                     Pagination(1, DefaultPageSize, Len(s),
                                (Len(s) + DefaultPageSize - 1) \div DefaultPageSize))
      : s \in OrderedByCreatedAtDesc(comments) }

\* GET /comments?news_id=: page and page_size are not given, so page 1 of
\* DefaultPageSize rows; total is COUNT(*) of the article's rows; a nil slice
\* of comments is encoded as null
GetCommentsHandler(newsID) ==
    { LET page == LimitOffset(s, DefaultPageSize, 0)
      IN  PagedReply(IF page = <<>> THEN Null
                     ELSE Arr([i \in 1..Len(page) |-> CommentJSON(page[i])]),
                     Pagination(1, DefaultPageSize, Len(s),
                                (Len(s) + DefaultPageSize - 1) \div DefaultPageSize))
      : s \in OrderedByCreatedAtDesc({r \in comments : r.news_id = newsID}) }

\* orphan: the INSERT of the request stored a row whose parent_id named no
\* row at that moment
CsIdle == [pc |-> "idle", req |-> [news_id |-> 0, parent_id |-> {}, text |-> <<>>],
           reply |-> TransportError, orphan |-> FALSE]

\* the request as the Comment Service's handler decodes it
CsReceived(b) ==
    [pc |-> "received",
     req |-> [news_id |-> b.news_id, parent_id |-> b.parent_id, text |-> b.text],
     reply |-> TransportError, orphan |-> FALSE]

\* POST /comments, first part: decode, validate, check that the parent exists
CreateCommentHandler_Check ==
    /\ cs.pc = "received"
    /\ LET code == ValidateCreate(cs.req)
       IN  cs' = IF code = StatusOK
                 THEN [cs EXCEPT !.pc = "checked"]
                 ELSE [cs EXCEPT !.pc = "replied", !.reply = TextReply(code)]
    /\ UNCHANGED <<comments, nextId, now, gw, gor, ch>>

\* CreateCommentHandler_Insert in one transaction with the parent check: the
\* row is stored only when its parent is still there
CreateCommentHandler_Insert_Atomic ==
    /\ cs.pc = "checked"
    /\ nextId < MaxComments
    /\ IF \E p \in cs.req.parent_id : ~Exists(p)
       THEN /\ cs' = [cs EXCEPT !.pc = "replied", !.reply = TextReply(StatusBadRequest)]
            /\ UNCHANGED <<comments, nextId, now>>
       ELSE \E t \in now..(IF now < MaxClock THEN now + 1 ELSE now) :
              LET row == [id |-> nextId + 1, news_id |-> cs.req.news_id,
                          parent_id |-> cs.req.parent_id, text |-> cs.req.text,
                          created_at |-> t]
              IN  /\ now' = t
                  /\ nextId' = nextId + 1
                  /\ comments' = comments \cup {row}
                  /\ cs' = [cs EXCEPT !.pc = "replied",
                                      !.reply = Reply(StatusOK, TRUE, CommentJSON(row))]
    /\ UNCHANGED <<gw, gor, ch>>

\* POST /comments, second part: INSERT, LastInsertId, SELECT of the new row.
\* The table's foreign key is not enforced (SQLite's default), so the INSERT
\* does not look at the parent.
CreateCommentHandler_Insert ==
    /\ cs.pc = "checked"
    /\ nextId < MaxComments
    /\ \E t \in now..(IF now < MaxClock THEN now + 1 ELSE now) :
         LET row == [id |-> nextId + 1, news_id |-> cs.req.news_id,
                     parent_id |-> cs.req.parent_id, text |-> cs.req.text,
                     created_at |-> t]
         IN  /\ now' = t
             /\ nextId' = nextId + 1
             /\ comments' = comments \cup {row}
             /\ cs' = [cs EXCEPT !.pc = "replied",
                                 !.reply = Reply(StatusOK, TRUE, CommentJSON(row)),
                                 !.orphan = \E p \in cs.req.parent_id : ~Exists(p)]
    /\ UNCHANGED <<gw, gor, ch>>

\* POST /comments, second part, when db.Exec fails
CreateCommentHandler_InsertError ==
    /\ cs.pc = "checked"
    /\ cs' = [cs EXCEPT !.pc = "replied", !.reply = TextReply(StatusInternalServerError)]
    /\ UNCHANGED <<comments, nextId, now, gw, gor, ch>>

\* DELETE /comments/{id}
DeleteCommentHandler(id) ==
    /\ Exists(id)
    /\ comments' = {r \in comments : r.id # id}
    /\ UNCHANGED <<nextId, now, cs, gw, gor, ch>>

(***************************************************************************)
(* What the Gateway's HTTP client may get back instead of the              *)
(* collaborator's answer: a transport error (connection refused, timeout), *)
(* a 500 with a text or an envelope body, a 200 whose envelope holds data  *)
(* of another shape.                                                       *)
(***************************************************************************)
FaultReplies ==
    { TransportError,
      TextReply(StatusInternalServerError),
      ErrorEnvelope(StatusInternalServerError),
      Reply(StatusOK, TRUE, Obj([id |-> Num(1)])) }

NewsReplies(id) == {GetNewsByIDHandler(id)} \cup FaultReplies
CommentsReplies(id) == GetCommentsHandler(id) \cup FaultReplies
CensorReplies(text) == {CheckHandler(text), TransportError, TextReply(StatusInternalServerError)}

(***************************************************************************)
(* Gateway: state of one request.                                          *)
(***************************************************************************)
\* errFrom: the call whose error the response reports
NoResp == [code |-> 0, status |-> "none", article |-> Absent, comments |-> Absent,
           data |-> Absent, pagination |-> Absent, errFrom |-> "none"]
NoReply == [recv |-> FALSE, err |-> FALSE, code |-> 0, ok |-> FALSE, reply |-> TransportError]
NoBody == [parsable |-> FALSE, news_id |-> 0, parent_id |-> {}, text |-> <<>>]

\* the query of GET /news as sent, and page, page_size and search as forwarded
NoQuery == [page |-> <<>>, page_size |-> <<>>, search |-> <<>>]
NoForward == [page |-> 0, page_size |-> 0, search |-> <<>>]

GwIdle ==
    [impl |-> "none", op |-> "none", pc |-> "idle",
     param |-> <<>>, id |-> 0, body |-> NoBody,
     query |-> NoQuery, fwd |-> NoForward,
     news |-> Absent, cmts |-> <<>>, i |-> 0,
     resp |-> NoResp,
     \* per request: the calls issued to each collaborator endpoint, the replies
     \* received, and the Comment Service's id counter when the request began
     calls |-> [news |-> 0, comments |-> 0, censor |-> 0, store |-> 0],
     seen |-> [news |-> NoReply, comments |-> NoReply, censor |-> NoReply, store |-> NoReply],
     startId |-> 0,
     \* the call in flight has been waited for longer than the deadline of a call
     overdue |-> FALSE]

GorIdle == [news |-> "none", comments |-> "none"]

\* http.Error and sendError: an error response with a status code
ErrorResp(code) == [NoResp EXCEPT !.code = code, !.status = "error"]

\* the article of a reply has the shape the Gateway expects
WellFormedNews(d) ==
    d.t = "obj" /\ IsNum(d.o, "id") /\ IsStr(d.o, "title") /\ IsStr(d.o, "content")

WellFormedComment(d) ==
    /\ d.t = "obj" /\ IsNum(d.o, "id") /\ IsNum(d.o, "news_id") /\ IsStr(d.o, "text")
    /\ ("parent_id" \in DOMAIN d.o /\ d.o["parent_id"].t # "null") => IsNum(d.o, "parent_id")

\* the call succeeded: no transport error, status 200, an envelope whose data
\* has the expected shape (no comments are encoded as null)
NewsCallOK(r) == ~r.err /\ r.code = StatusOK /\ r.json /\ WellFormedNews(r.data)
CommentsCallOK(r) ==
    /\ ~r.err /\ r.code = StatusOK /\ r.json
    /\ \/ r.data.t = "null"
       \/ r.data.t = "arr" /\ \A i \in 1..Len(r.data.a) : WellFormedComment(r.data.a[i])

Seen(r, ok) == [recv |-> TRUE, err |-> r.err, code |-> r.code, ok |-> ok, reply |-> r]

(***************************************************************************)
(* Gateway, api-gateway/main.go: GET /news/{id}.                           *)
(***************************************************************************)
\* what the news goroutine sends on the channel for a reply; tag "panic" when
\* a type assertion on a field of the object fails
NewsResult(r) ==
    IF r.err \/ ~r.json
    THEN [tag |-> "err", from |-> "news", news |-> Absent, comments |-> <<>>]
    ELSE IF r.data.t = "obj"
    THEN IF IsNum(r.data.o, "id") /\ IsStr(r.data.o, "title") /\ IsStr(r.data.o, "content")
         THEN [tag |-> "ok", from |-> "news",
               news |-> Obj([id |-> r.data.o["id"], title |-> r.data.o["title"],
                             content |-> r.data.o["content"]]),
               comments |-> <<>>]
         ELSE [tag |-> "panic", from |-> "news", news |-> Absent, comments |-> <<>>]
    ELSE [tag |-> "err", from |-> "news", news |-> Absent, comments |-> <<>>]

\* the Comment struct built from one element of data
DecodeComment(d) ==
    [id |-> d.o["id"].n, news_id |-> d.o["news_id"].n, text |-> d.o["text"].s,
     parent_id |-> IF "parent_id" \in DOMAIN d.o /\ d.o["parent_id"].t # "null"
                   THEN {d.o["parent_id"].n} ELSE {},
     created_at |-> IF IsStr(d.o, "created_at") THEN {ParseTime(d.o["created_at"].s)} ELSE {}]

IsMap(d) == d.t = "obj"

Reverse(s) == [i \in 1..Len(s) |-> s[Len(s) + 1 - i]]

\* CommentsResult that hands the comments over oldest first
CommentsResult_Reversed(r) ==
    IF r.err \/ ~r.json
    THEN [tag |-> "err", from |-> "comments", news |-> Absent, comments |-> <<>>]
    ELSE IF r.data.t = "arr"
    THEN LET maps == SelectSeq(r.data.a, IsMap)
         IN  IF \A i \in 1..Len(maps) : WellFormedComment(maps[i])
             THEN [tag |-> "ok", from |-> "comments", news |-> Absent,
                   comments |-> Reverse([i \in 1..Len(maps) |-> DecodeComment(maps[i])])]
             ELSE [tag |-> "panic", from |-> "comments", news |-> Absent, comments |-> <<>>]
    ELSE [tag |-> "ok", from |-> "comments", news |-> Absent, comments |-> <<>>]

\* what the comments goroutine sends on the channel for a reply: elements of
\* data that are not objects are skipped, data that is no array gives nil
CommentsResult(r) ==
    IF r.err \/ ~r.json
    THEN [tag |-> "err", from |-> "comments", news |-> Absent, comments |-> <<>>]
    ELSE IF r.data.t = "arr"
    THEN LET maps == SelectSeq(r.data.a, IsMap)
         IN  IF \A i \in 1..Len(maps) : WellFormedComment(maps[i])
             THEN [tag |-> "ok", from |-> "comments", news |-> Absent,
                   comments |-> [i \in 1..Len(maps) |-> DecodeComment(maps[i])]]
             ELSE [tag |-> "panic", from |-> "comments", news |-> Absent, comments |-> <<>>]
    ELSE [tag |-> "ok", from |-> "comments", news |-> Absent, comments |-> <<>>]

\* the handler up to the start of the two goroutines
GetNewsWithCommentsHandler_Begin(p) ==
    /\ gw.pc = "idle"
    /\ LET a == Atoi(p)
           g == [GwIdle EXCEPT !.impl = "handler", !.op = "get", !.param = p,
                               !.id = a.val, !.startId = nextId]
       IN  IF a.err
           THEN /\ gw' = [g EXCEPT !.pc = "done", !.resp = ErrorResp(StatusBadRequest)]
                /\ gor' = GorIdle
           ELSE /\ gw' = [g EXCEPT !.pc = "join"]
                /\ gor' = [news |-> "start", comments |-> "start"]
    /\ ch' = <<>>
    /\ UNCHANGED <<comments, nextId, now, cs>>

\* news goroutine: client.Get is sent
NewsGoroutine_Get ==
    /\ gor.news = "start"
    /\ gor' = [gor EXCEPT !.news = "wait"]
    /\ gw' = [gw EXCEPT !.calls.news = @ + 1]
    /\ UNCHANGED <<comments, nextId, now, cs, ch>>

\* NewsGoroutine_Done that sends the request again after a transport error
NewsGoroutine_Done_Retry(r) ==
    /\ gor.news = "wait"
    /\ IF r.err
       THEN /\ gor' = [gor EXCEPT !.news = "start"]
            /\ gw' = [gw EXCEPT !.seen.news = Seen(r, FALSE)]
            /\ ch' = ch
       ELSE /\ gor' = [gor EXCEPT !.news = "done"]
            /\ gw' = [gw EXCEPT !.seen.news = Seen(r, NewsCallOK(r))]
            /\ ch' = Append(ch, [NewsResult(r) EXCEPT !.tag = IF @ = "panic" THEN "err" ELSE @])
    /\ UNCHANGED <<comments, nextId, now, cs>>

\* news goroutine: client.Get returns; decode and send the result
NewsGoroutine_Done(r) ==
    /\ gor.news = "wait"
    /\ LET res == NewsResult(r)
       IN  IF res.tag = "panic"
           THEN /\ gor' = [gor EXCEPT !.news = "panic"]
                /\ gw' = [gw EXCEPT !.seen.news = Seen(r, NewsCallOK(r)),
                                    !.pc = IF @ = "done" THEN "done" ELSE "crashed"]
                /\ ch' = ch
           ELSE /\ gor' = [gor EXCEPT !.news = "done"]
                /\ gw' = [gw EXCEPT !.seen.news = Seen(r, NewsCallOK(r))]
                /\ ch' = Append(ch, res)
    /\ UNCHANGED <<comments, nextId, now, cs>>

\* comments goroutine: client.Get is sent
CommentsGoroutine_Get ==
    /\ gor.comments = "start"
    /\ gor' = [gor EXCEPT !.comments = "wait"]
    /\ gw' = [gw EXCEPT !.calls.comments = @ + 1]
    /\ UNCHANGED <<comments, nextId, now, cs, ch>>

\* comments goroutine: client.Get returns; decode and send the result
CommentsGoroutine_Done(r) ==
    /\ gor.comments = "wait"
    /\ LET res == CommentsResult(r)
       IN  IF res.tag = "panic"
           THEN /\ gor' = [gor EXCEPT !.comments = "panic"]
                /\ gw' = [gw EXCEPT !.seen.comments = Seen(r, CommentsCallOK(r)),
                                    !.pc = IF @ = "done" THEN "done" ELSE "crashed"]
                /\ ch' = ch
           ELSE /\ gor' = [gor EXCEPT !.comments = "done"]
                /\ gw' = [gw EXCEPT !.seen.comments = Seen(r, CommentsCallOK(r))]
                /\ ch' = Append(ch, res)
    /\ UNCHANGED <<comments, nextId, now, cs>>

\* the JSON of struct News: comments has omitempty
NewsJSON(news, cmts) ==
    [article |-> news, comments |-> IF cmts = <<>> THEN Absent ELSE Arr(cmts)]

\* the response of the receive loop to a result that holds an error
RecvError(res) == [ErrorResp(StatusInternalServerError) EXCEPT !.errFrom = res.from]

\* GetNewsWithCommentsHandler_Recv that reads both results before it answers
\* and reports the error read last
GetNewsWithCommentsHandler_Recv_ReadAll ==
    /\ gw.impl = "handler" /\ gw.op = "get" /\ gw.pc = "join"
    /\ ch # <<>>
    /\ LET res == Head(ch)
           resp == IF res.tag = "err" THEN RecvError(res) ELSE gw.resp
       IN  gw' = IF gw.i = 0
                 THEN [gw EXCEPT !.i = 1, !.resp = resp]
                 ELSE [gw EXCEPT !.i = 2, !.pc = "done",
                                 !.resp = IF resp.code = 0 THEN ErrorResp(StatusOK)
                                          ELSE resp]
    /\ ch' = Tail(ch)
    /\ UNCHANGED <<comments, nextId, now, cs, gor>>

\* one iteration of the receive loop; after the second one the response
GetNewsWithCommentsHandler_Recv ==
    /\ gw.impl = "handler" /\ gw.op = "get" /\ gw.pc = "join"
    /\ ch # <<>>
    /\ LET res == Head(ch)
           news == IF res.news.t # "absent" THEN res.news ELSE gw.news
           cmts == IF res.news.t = "absent" /\ res.comments # <<>> THEN res.comments
                   ELSE gw.cmts
       IN  gw' = IF res.tag = "err"
                 THEN [gw EXCEPT !.pc = "done", !.resp = RecvError(res)]
                 ELSE IF gw.i = 0
                 THEN [gw EXCEPT !.news = news, !.cmts = cmts, !.i = 1]
                 ELSE [gw EXCEPT !.news = news, !.cmts = cmts, !.i = 2, !.pc = "done",
                                 !.resp = [NoResp EXCEPT
                                    !.code = StatusOK, !.status = "success",
                                    !.article = IF news.t = "absent" THEN Null ELSE news,
                                    !.comments = IF news.t = "absent" THEN Absent
                                                 ELSE NewsJSON(news, cmts).comments]]
    /\ ch' = Tail(ch)
    /\ UNCHANGED <<comments, nextId, now, cs, gor>>

(***************************************************************************)
(* Gateway, App: GET /news/{id}, one call after the other.                 *)
(***************************************************************************)
\* the response to a downstream reply that does not let the handler go on:
\* 500 for a transport error or an undecodable body, the collaborator's own
\* status for a status other than 200
RelayFailure(r) ==
    IF r.err THEN ErrorResp(StatusInternalServerError)
    ELSE IF r.code # StatusOK THEN ErrorResp(r.code)
    ELSE ErrorResp(StatusInternalServerError)

Usable(r) == ~r.err /\ r.code = StatusOK /\ r.json

\* parse the id, then send the request for the article
GetNewsByID_Begin(p) ==
    /\ gw.pc = "idle"
    /\ LET a == Atoi(p)
           g == [GwIdle EXCEPT !.impl = "app", !.op = "get", !.param = p,
                               !.id = a.val, !.startId = nextId]
       IN  gw' = IF a.err \/ a.val < 1
                 THEN [g EXCEPT !.pc = "done", !.resp = ErrorResp(StatusBadRequest)]
                 ELSE [g EXCEPT !.pc = "news_wait", !.calls.news = 1]
    /\ gor' = GorIdle
    /\ ch' = <<>>
    /\ UNCHANGED <<comments, nextId, now, cs>>

\* the article's reply is read and parsed
GetNewsByID_NewsReply(r) ==
    /\ gw.impl = "app" /\ gw.pc = "news_wait"
    /\ gw' = IF Usable(r)
             THEN [gw EXCEPT !.overdue = FALSE, !.pc = "comments", !.news = r.data,
                             !.seen.news = Seen(r, NewsCallOK(r))]
             ELSE [gw EXCEPT !.overdue = FALSE, !.pc = "done", !.resp = RelayFailure(r),
                             !.seen.news = Seen(r, NewsCallOK(r))]
    /\ UNCHANGED <<comments, nextId, now, cs, gor, ch>>

\* the request for the comments is sent
GetNewsByID_CommentsGet ==
    /\ gw.impl = "app" /\ gw.pc = "comments"
    /\ gw' = [gw EXCEPT !.pc = "comments_wait", !.calls.comments = @ + 1]
    /\ UNCHANGED <<comments, nextId, now, cs, gor, ch>>

\* the comments' reply is read and parsed; the response holds the data of the
\* two envelopes as they are (a nil data is encoded as null)
GetNewsByID_CommentsReply(r) ==
    /\ gw.impl = "app" /\ gw.pc = "comments_wait"
    /\ gw' = IF Usable(r)
             THEN [gw EXCEPT !.overdue = FALSE, !.pc = "done",
                             !.seen.comments = Seen(r, CommentsCallOK(r)),
                             !.resp = [NoResp EXCEPT !.code = StatusOK, !.status = "success",
                                                     !.article = gw.news,
                                                     !.comments = r.data]]
             ELSE [gw EXCEPT !.overdue = FALSE, !.pc = "done", !.resp = RelayFailure(r),
                             !.seen.comments = Seen(r, CommentsCallOK(r))]
    /\ UNCHANGED <<comments, nextId, now, cs, gor, ch>>

(***************************************************************************)
(* Gateway: GET /news.                                                     *)
(***************************************************************************)
\* what the Gateway's client may get for the forwarded GET /news
NewsListReplies ==
    { GetNewsHandler(gw.fwd.page, gw.fwd.page_size, gw.fwd.search),
      TransportError,
      TextReply(StatusInternalServerError),
      ErrorEnvelope(StatusInternalServerError) }

\* a nil Data is left out of the encoded Response (omitempty)
OmitEmpty(d) == IF d.t = "null" THEN Absent ELSE d

\* HandlerPage that forwards the page as sent
HandlerPage_AsSent(v) == v

\* page as GetNewsHandler of api-gateway/main.go forwards it
HandlerPage(v) == IF v <= 0 THEN 1 ELSE v

\* page as App.GetNews forwards it
AppPage(v) == IF v < 1 THEN 1 ELSE v

\* page_size as GetNewsHandler of api-gateway/main.go forwards it
HandlerPageSize(v) == IF v <= 0 THEN DefaultNewsPageSize ELSE v

\* page_size as App.GetNews forwards it
AppPageSize(v) == IF v < 1 \/ v > MaxPageSize THEN DefaultNewsPageSize ELSE v

\* GetNewsHandler of api-gateway/main.go: read the query, send the request
GatewayGetNewsHandler_Begin(q) ==
    /\ gw.pc = "idle"
    /\ LET page == Atoi(q.page).val
           pageSize == Atoi(q.page_size).val
       IN  gw' = [GwIdle EXCEPT !.impl = "handler", !.op = "list", !.query = q,
                                !.startId = nextId, !.pc = "list_wait",
                                !.fwd = [page |-> HandlerPage(page),
                                         page_size |-> HandlerPageSize(pageSize),
                                         search |-> q.search],
                                !.calls.news = 1]
    /\ gor' = GorIdle
    /\ ch' = <<>>
    /\ UNCHANGED <<comments, nextId, now, cs>>

\* GetNewsHandler of api-gateway/main.go: decode the reply and encode it again
GatewayGetNewsHandler_Reply(r) ==
    /\ gw.impl = "handler" /\ gw.op = "list" /\ gw.pc = "list_wait"
    /\ gw' = [gw EXCEPT !.pc = "done",
                        !.seen.news = Seen(r, Usable(r)),
                        !.resp = IF r.err \/ ~r.json
                                 THEN ErrorResp(StatusInternalServerError)
                                 ELSE [NoResp EXCEPT !.code = StatusOK,
                                                     !.status = r.status,
                                                     !.data = OmitEmpty(r.data),
                                                     !.pagination = r.pagination]]
    /\ UNCHANGED <<comments, nextId, now, cs, gor, ch>>

\* App.GetNews: read the query, check the search string, send the request
GetNews_Begin(q) ==
    /\ gw.pc = "idle"
    /\ LET page == Atoi(q.page).val
           pageSize == Atoi(q.page_size).val
           g == [GwIdle EXCEPT !.impl = "app", !.op = "list", !.query = q,
                               !.startId = nextId]
       IN  gw' = IF Len(q.search) > MaxSearchLen
                 THEN [g EXCEPT !.pc = "done", !.resp = ErrorResp(StatusBadRequest)]
                 ELSE [g EXCEPT !.pc = "list_wait",
                                !.fwd = [page |-> AppPage(page),
                                         page_size |-> AppPageSize(pageSize),
                                         search |-> q.search],
                                !.calls.news = 1]
    /\ gor' = GorIdle
    /\ ch' = <<>>
    /\ UNCHANGED <<comments, nextId, now, cs>>

\* App.GetNews: the reply; the response holds the reply's data and a
\* pagination block made here
GetNews_Reply(r) ==
    /\ gw.impl = "app" /\ gw.op = "list" /\ gw.pc = "list_wait"
    /\ gw' = [gw EXCEPT !.overdue = FALSE, !.pc = "done",
                        !.seen.news = Seen(r, Usable(r)),
                        !.resp = IF Usable(r)
                                 THEN [NoResp EXCEPT
                                         !.code = StatusOK, !.status = "success",
                                         !.data = OmitEmpty(r.data),
                                         !.pagination = Pagination(gw.fwd.page,
                                                                   gw.fwd.page_size,
                                                                   AppTotal, AppPageCount)]
                                 ELSE RelayFailure(r)]
    /\ UNCHANGED <<comments, nextId, now, cs, gor, ch>>

(***************************************************************************)
(* Gateway, App: the calls go through http.Get and http.Post, that is the  *)
(* default client, which has no timeout, and the request's context is not  *)
(* handed to them.  The handlers of api-gateway/main.go use a client with  *)
(* a timeout: there the deadline of a call ends it with an error, which is *)
(* the reply TransportError.                                               *)
(***************************************************************************)
AppWaiting == {"news_wait", "comments_wait", "censor", "store", "list_wait"}

\* the deadline of a call passes while an App handler waits for the reply:
\* nothing ends the call, the handler goes on waiting
AppCall_DeadlinePasses ==
    /\ gw.impl = "app" /\ gw.pc \in AppWaiting
    /\ ~gw.overdue
    /\ gw' = [gw EXCEPT !.overdue = TRUE]
    /\ UNCHANGED <<comments, nextId, now, cs, gor, ch>>

(***************************************************************************)
(* Gateway: GET /health.                                                   *)
(***************************************************************************)
\* HealthCheck that asks the News Aggregator before it answers
HealthCheck_Deep(impl) ==
    /\ gw.pc = "idle"
    /\ gw' = [GwIdle EXCEPT !.impl = impl, !.op = "health", !.pc = "done",
                            !.startId = nextId, !.calls.news = 1,
                            !.resp = [NoResp EXCEPT !.code = StatusOK, !.status = "ok"]]
    /\ gor' = GorIdle
    /\ ch' = <<>>
    /\ UNCHANGED <<comments, nextId, now, cs>>

\* the /health route of api-gateway/main.go and App.HealthCheck: encode
\* Response{Status: "ok"}; the status code is the default, 200
HealthCheck(impl) ==
    /\ gw.pc = "idle"
    /\ gw' = [GwIdle EXCEPT !.impl = impl, !.op = "health", !.pc = "done",
                            !.startId = nextId,
                            !.resp = [NoResp EXCEPT !.code = StatusOK, !.status = "ok"]]
    /\ gor' = GorIdle
    /\ ch' = <<>>
    /\ UNCHANGED <<comments, nextId, now, cs>>

(***************************************************************************)
(* Gateway: POST /comment.                                                 *)
(***************************************************************************)
\* what the Comment Service's reply is for the Gateway's client: the reply the
\* handler wrote, a body that is no envelope, or a transport error (a timeout
\* may come before the handler is done)
StoreReplies ==
    (IF cs.pc = "replied" THEN {cs.reply, TextReply(StatusOK)} ELSE {}) \cup {TransportError}

\* CensorVerdict that lets the text pass when the status is not 200
CensorVerdict_FailOpen(r) ==
    IF r.err THEN "unavailable" ELSE "pass"

\* CensorVerdict that reads a transport error as a rejection
CensorVerdict_ErrorAsRejected(r) ==
    IF r.err \/ r.code # StatusOK THEN "rejected" ELSE "pass"

\* the reading of the Censor Service's reply
CensorVerdict(r) ==
    IF r.err THEN "unavailable"
    ELSE IF r.code # StatusOK THEN "rejected"
    ELSE "pass"

\* StoreResponse that answers with the request's fields and not with the
\* envelope of the Comment Service
StoreResponse_EchoRequest(r) ==
    IF Usable(r)
    THEN [NoResp EXCEPT !.code = StatusOK, !.status = "success",
                        !.data = Obj([news_id |-> Num(gw.body.news_id),
                                      text |-> Str(gw.body.text)])]
    ELSE RelayFailure(r)

\* the response to the Comment Service's reply
StoreResponse(r) ==
    IF Usable(r)
    THEN [NoResp EXCEPT !.code = StatusOK, !.status = "success", !.data = r.data]
    ELSE RelayFailure(r)

\* GatewayCreateCommentHandler_Begin that sends the comment to the Comment
\* Service together with the request to the Censor Service
GatewayCreateCommentHandler_Begin_Parallel(b) ==
    /\ gw.pc = "idle"
    /\ cs.pc \in {"idle", "replied"}
    /\ nextId < MaxComments
    /\ b.parsable
    /\ gw' = [GwIdle EXCEPT !.impl = "handler", !.op = "post", !.body = b,
                            !.startId = nextId, !.pc = "censor",
                            !.calls.censor = 1, !.calls.store = 1]
    /\ gor' = GorIdle
    /\ ch' = <<>>
    /\ cs' = CsReceived(b)
    /\ UNCHANGED <<comments, nextId, now>>

\* GatewayCreateCommentHandler_Begin that goes on with the zero request when
\* the body does not decode
GatewayCreateCommentHandler_Begin_IgnoreDecodeError(b) ==
    /\ gw.pc = "idle"
    /\ cs.pc \in {"idle", "replied"}
    /\ nextId < MaxComments
    /\ gw' = [GwIdle EXCEPT !.impl = "handler", !.op = "post", !.body = b,
                            !.startId = nextId, !.pc = "censor", !.calls.censor = 1]
    /\ gor' = GorIdle
    /\ ch' = <<>>
    /\ cs' = CsIdle
    /\ UNCHANGED <<comments, nextId, now>>

\* the handler of api-gateway/main.go: decode the body, call the Censor Service
GatewayCreateCommentHandler_Begin(b) ==
    /\ gw.pc = "idle"
    /\ cs.pc \in {"idle", "replied"}
    /\ nextId < MaxComments
    /\ LET g == [GwIdle EXCEPT !.impl = "handler", !.op = "post", !.body = b,
                               !.startId = nextId]
       IN  gw' = IF ~b.parsable
                 THEN [g EXCEPT !.pc = "done", !.resp = ErrorResp(StatusBadRequest)]
                 ELSE [g EXCEPT !.pc = "censor", !.calls.censor = 1]
    /\ gor' = GorIdle
    /\ ch' = <<>>
    /\ cs' = CsIdle
    /\ UNCHANGED <<comments, nextId, now>>

\* the Censor Service's reply; when the text passes, the request to the
\* Comment Service is sent
GatewayCreateCommentHandler_Censor(r) ==
    /\ gw.impl = "handler" /\ gw.pc = "censor"
    /\ LET v == CensorVerdict(r)
           g == [gw EXCEPT !.seen.censor = Seen(r, ~r.err /\ r.code = StatusOK)]
       IN  CASE v = "unavailable" ->
                  /\ gw' = [g EXCEPT !.pc = "done",
                                     !.resp = ErrorResp(StatusInternalServerError)]
                  /\ cs' = cs
             [] v = "rejected" ->
                  /\ gw' = [g EXCEPT !.pc = "done", !.resp = ErrorResp(StatusBadRequest)]
                  /\ cs' = cs
             [] v = "pass" ->
                  /\ gw' = [g EXCEPT !.pc = "store", !.calls.store = @ + 1]
                  /\ cs' = CsReceived(gw.body)
    /\ UNCHANGED <<comments, nextId, now, gor, ch>>

\* the Comment Service's reply
GatewayCreateCommentHandler_Store(r) ==
    /\ gw.impl = "handler" /\ gw.pc = "store"
    /\ gw' = [gw EXCEPT !.pc = "done", !.resp = StoreResponse(r),
                        !.seen.store = Seen(r, Usable(r))]
    /\ cs' = IF cs.pc = "replied" THEN CsIdle ELSE cs
    /\ UNCHANGED <<comments, nextId, now, gor, ch>>

\* App.CreateComment: decode the body, call the Censor Service
CreateComment_Begin(b) ==
    /\ gw.pc = "idle"
    /\ cs.pc \in {"idle", "replied"}
    /\ nextId < MaxComments
    /\ LET g == [GwIdle EXCEPT !.impl = "app", !.op = "post", !.body = b,
                               !.startId = nextId]
       IN  gw' = IF ~b.parsable
                 THEN [g EXCEPT !.pc = "done", !.resp = ErrorResp(StatusBadRequest)]
                 ELSE [g EXCEPT !.pc = "censor", !.calls.censor = 1]
    /\ gor' = GorIdle
    /\ ch' = <<>>
    /\ cs' = CsIdle
    /\ UNCHANGED <<comments, nextId, now>>

\* App.CreateComment: the Censor Service's reply, then the request to the
\* Comment Service
CreateComment_Censor(r) ==
    /\ gw.impl = "app" /\ gw.pc = "censor"
    /\ LET g == [gw EXCEPT !.overdue = FALSE, !.seen.censor = Seen(r, ~r.err /\ r.code = StatusOK)]
       IN  IF r.err
           THEN /\ gw' = [g EXCEPT !.pc = "done",
                                   !.resp = ErrorResp(StatusInternalServerError)]
                /\ cs' = cs
           ELSE IF r.code # StatusOK
           THEN /\ gw' = [g EXCEPT !.pc = "done", !.resp = ErrorResp(StatusBadRequest)]
                /\ cs' = cs
           ELSE /\ gw' = [g EXCEPT !.pc = "store", !.calls.store = @ + 1]
                /\ cs' = CsReceived(gw.body)
    /\ UNCHANGED <<comments, nextId, now, gor, ch>>

\* App.CreateComment: the Comment Service's reply
CreateComment_Store(r) ==
    /\ gw.impl = "app" /\ gw.pc = "store"
    /\ gw' = [gw EXCEPT !.overdue = FALSE, !.pc = "done",
                        !.seen.store = Seen(r, Usable(r)),
                        !.resp = IF r.err THEN ErrorResp(StatusInternalServerError)
                                 ELSE IF r.code # StatusOK THEN ErrorResp(r.code)
                                 ELSE IF ~r.json THEN ErrorResp(StatusInternalServerError)
                                 ELSE [NoResp EXCEPT !.code = StatusOK,
                                                     !.status = "success",
                                                     !.data = r.data]]
    /\ cs' = IF cs.pc = "replied" THEN CsIdle ELSE cs
    /\ UNCHANGED <<comments, nextId, now, gor, ch>>

\* RequestEnd that keeps the article and the comments of the request
RequestEnd_KeepsView ==
    /\ gw.pc = "done"
    /\ cs.pc \in {"idle", "replied"}
    /\ gor.news \in {"none", "done"} /\ gor.comments \in {"none", "done"}
    /\ gw' = [GwIdle EXCEPT !.news = gw.news, !.cmts = gw.cmts]
    /\ gor' = GorIdle
    /\ ch' = <<>>
    /\ cs' = CsIdle
    /\ UNCHANGED <<comments, nextId, now>>

\* the response is written and the request's state is dropped; the goroutines
\* of the request and the Comment Service's handler of its call have ended
RequestEnd ==
    /\ gw.pc = "done"
    /\ cs.pc \in {"idle", "replied"}
    /\ gor.news \in {"none", "done"} /\ gor.comments \in {"none", "done"}
    /\ gw' = GwIdle
    /\ gor' = GorIdle
    /\ ch' = <<>>
    /\ cs' = CsIdle
    /\ UNCHANGED <<comments, nextId, now>>

(***************************************************************************)
(* Requests.                                                               *)
(***************************************************************************)
IdParams ==
    { <<"a", "b", "c">>, <<"0">>, <<"1">>, <<"9">> }

Texts == { <<>>, <<"h", "i">>, <<"Q", "w", "e", "r", "t", "y">> }

\* a text of MaxTextLen + 1 letters of one byte, and one of MaxTextLen letters
\* of which the first takes two bytes
LongTexts ==
    { [i \in 1..(MaxTextLen + 1) |-> "a"],
      [i \in 1..MaxTextLen |-> IF i = 1 THEN "U+0435" ELSE "a"] }

PostBodies ==
    {NoBody}
    \cup [parsable : {TRUE}, news_id : {0, 1, 2},
          parent_id : {{}, {1}, {MaxComments + 1}}, text : Texts]
    \cup [parsable : {TRUE}, news_id : {1}, parent_id : {{}}, text : LongTexts]

PageParams == { <<>>, <<"x">>, <<"-", "1">>, <<"0">>, <<"1">>, <<"2">> }

PageSizeParams ==
    { <<>>, <<"a">>, <<"-", "1">>, <<"0">>, <<"1">>, <<"1", "0", "0">>,
      <<"1", "0", "1">>, <<"1", "0", "0", "0">> }

Searches == { <<>>, <<"n", "1">>, [i \in 1..(MaxSearchLen + 1) |-> "x"] }

Queries ==
    [page : {<<>>, <<"2">>}, page_size : PageSizeParams, search : {<<>>}]
    \cup [page : PageParams, page_size : {<<>>}, search : {<<>>}]
    \cup [page : {<<>>}, page_size : {<<>>}, search : Searches]

\* the table as an earlier run of the Comment Service left it: n comments on
\* article 1, one per second
StoredRows(n) ==
    { [id |-> i, news_id |-> 1, parent_id |-> {}, text |-> <<"h", "i">>,
       created_at |-> i - 1] : i \in 1..n }

\* initDB opens the database file, new or left by an earlier run
Init ==
    /\ \E n \in {0, MaxStored} :
          /\ comments = StoredRows(n)
          /\ nextId = n
          /\ now = n
    /\ cs = CsIdle
    /\ gw = GwIdle
    /\ gor = GorIdle
    /\ ch = <<>>

Next ==
    \/ \E b \in PostBodies : GatewayCreateCommentHandler_Begin(b)
    \/ \E r \in CensorReplies(gw.body.text) : GatewayCreateCommentHandler_Censor(r)
    \/ \E r \in StoreReplies : GatewayCreateCommentHandler_Store(r)
    \/ \E b \in PostBodies : CreateComment_Begin(b)
    \/ \E r \in CensorReplies(gw.body.text) : CreateComment_Censor(r)
    \/ \E r \in StoreReplies : CreateComment_Store(r)
    \/ \E p \in IdParams : GetNewsWithCommentsHandler_Begin(p)
    \/ NewsGoroutine_Get
    \/ \E r \in NewsReplies(gw.id) : NewsGoroutine_Done(r)
    \/ CommentsGoroutine_Get
    \/ \E r \in CommentsReplies(gw.id) : CommentsGoroutine_Done(r)
    \/ GetNewsWithCommentsHandler_Recv
    \/ \E p \in IdParams : GetNewsByID_Begin(p)
    \/ \E r \in NewsReplies(gw.id) : GetNewsByID_NewsReply(r)
    \/ GetNewsByID_CommentsGet
    \/ \E r \in CommentsReplies(gw.id) : GetNewsByID_CommentsReply(r)
    \/ \E q \in Queries : GatewayGetNewsHandler_Begin(q)
    \/ \E r \in NewsListReplies : GatewayGetNewsHandler_Reply(r)
    \/ \E q \in Queries : GetNews_Begin(q)
    \/ \E r \in NewsListReplies : GetNews_Reply(r)
    \/ AppCall_DeadlinePasses
    \/ \E impl \in {"handler", "app"} : HealthCheck(impl)
    \/ RequestEnd
    \/ CreateCommentHandler_Check
    \/ CreateCommentHandler_Insert
    \/ CreateCommentHandler_InsertError
    \/ \E id \in 1..MaxComments : DeleteCommentHandler(id)

Spec == Init /\ [][Next]_vars

(***************************************************************************)
(* Gateway, api-gateway/main.go: GET /news/{id} requests handled at the    *)
(* same time. net/http runs every request in a goroutine of its own; gw,   *)
(* gor and ch hold one entry for each request in flight.                   *)
(***************************************************************************)
MaxRequests == 2

Requests == 1..MaxRequests

\* from: the requests whose goroutines sent the results this request has read
ReqIdle == [pc |-> "idle", id |-> 0, news |-> Absent, cmts |-> <<>>, i |-> 0,
            resp |-> NoResp, from |-> {}]

\* a channel shared by every invocation of the handler
ChanOf_Shared(k) == 1

\* ch := make(chan result, 2) is a local of the invocation: request k sends
\* to and receives from the channel made by request k
ChanOf(k) == k

ConcParams == {<<"a", "b", "c">>, <<"1">>, <<"2">>}

\* one comment to each of the articles 1 and 2
ConcRows ==
    { [id |-> i, news_id |-> i, parent_id |-> {}, text |-> <<"h", "i">>,
       created_at |-> i - 1] : i \in 1..2 }

InitConc ==
    /\ comments = ConcRows
    /\ nextId = 2
    /\ now = 2
    /\ cs = CsIdle
    /\ gw = [k \in Requests |-> ReqIdle]
    /\ gor = [k \in Requests |-> GorIdle]
    /\ ch = [k \in Requests |-> <<>>]

\* the handler of request k up to the start of its two goroutines
Conc_Begin(k, p) ==
    /\ gw[k].pc = "idle"
    /\ LET a == Atoi(p)
       IN  IF a.err
           THEN /\ gw' = [gw EXCEPT ![k] = [ReqIdle EXCEPT !.pc = "done",
                                               !.resp = ErrorResp(StatusBadRequest)]]
                /\ gor' = gor
                /\ ch' = ch
           ELSE /\ gw' = [gw EXCEPT ![k] = [ReqIdle EXCEPT !.pc = "join", !.id = a.val]]
                /\ gor' = [gor EXCEPT ![k] = [news |-> "start", comments |-> "start"]]
                /\ ch' = [ch EXCEPT ![ChanOf(k)] = <<>>]
    /\ UNCHANGED <<comments, nextId, now, cs>>

\* the news goroutine of request k: the call, the decoding and the send; a
\* send waits while the channel is full
Conc_NewsGoroutine(k, r) ==
    /\ gor[k].news = "start"
    /\ NewsResult(r).tag # "panic"
    /\ Len(ch[ChanOf(k)]) < ChanCap
    /\ ch' = [ch EXCEPT ![ChanOf(k)] = Append(@, [owner |-> k, res |-> NewsResult(r)])]
    /\ gor' = [gor EXCEPT ![k].news = "done"]
    /\ UNCHANGED <<comments, nextId, now, cs, gw>>

\* the comments goroutine of request k
Conc_CommentsGoroutine(k, r) ==
    /\ gor[k].comments = "start"
    /\ CommentsResult(r).tag # "panic"
    /\ Len(ch[ChanOf(k)]) < ChanCap
    /\ ch' = [ch EXCEPT ![ChanOf(k)] = Append(@, [owner |-> k, res |-> CommentsResult(r)])]
    /\ gor' = [gor EXCEPT ![k].comments = "done"]
    /\ UNCHANGED <<comments, nextId, now, cs, gw>>

\* one iteration of the receive loop of request k
Conc_Recv(k) ==
    /\ gw[k].pc = "join"
    /\ ch[ChanOf(k)] # <<>>
    /\ LET m == Head(ch[ChanOf(k)])
           res == m.res
           g == [gw[k] EXCEPT !.from = @ \cup {m.owner}]
           news == IF res.news.t # "absent" THEN res.news ELSE g.news
           cmts == IF res.news.t = "absent" /\ res.comments # <<>> THEN res.comments
                   ELSE g.cmts
       IN  gw' = [gw EXCEPT ![k] =
                 IF res.tag = "err"
                 THEN [g EXCEPT !.pc = "done", !.resp = RecvError(res)]
                 ELSE IF g.i = 0
                 THEN [g EXCEPT !.news = news, !.cmts = cmts, !.i = 1]
                 ELSE [g EXCEPT !.news = news, !.cmts = cmts, !.i = 2, !.pc = "done",
                                !.resp = [NoResp EXCEPT
                                   !.code = StatusOK, !.status = "success",
                                   !.article = IF news.t = "absent" THEN Null ELSE news,
                                   !.comments = IF news.t = "absent" THEN Absent
                                                ELSE NewsJSON(news, cmts).comments]]]
    /\ ch' = [ch EXCEPT ![ChanOf(k)] = Tail(@)]
    /\ UNCHANGED <<comments, nextId, now, cs, gor>>

\* the response of request k is written and its goroutines have ended
Conc_RequestEnd(k) ==
    /\ gw[k].pc = "done"
    /\ gor[k].news \in {"none", "done"} /\ gor[k].comments \in {"none", "done"}
    /\ gw' = [gw EXCEPT ![k] = ReqIdle]
    /\ gor' = [gor EXCEPT ![k] = GorIdle]
    /\ ch' = [ch EXCEPT ![ChanOf(k)] = <<>>]
    /\ UNCHANGED <<comments, nextId, now, cs>>

NextConc ==
    \/ \E k \in Requests, p \in ConcParams : Conc_Begin(k, p)
    \/ \E k \in Requests :
          \E r \in {GetNewsByIDHandler(gw[k].id), TransportError} :
              Conc_NewsGoroutine(k, r)
    \/ \E k \in Requests :
          \E r \in GetCommentsHandler(gw[k].id) \cup {TransportError} :
              Conc_CommentsGoroutine(k, r)
    \/ \E k \in Requests : Conc_Recv(k)
    \/ \E k \in Requests : Conc_RequestEnd(k)

SpecConc == InitConc /\ [][NextConc]_vars

(***************************************************************************)
(* Comment Service, comment-service/main.go, called directly: POST         *)
(* /comments, GET /comments and DELETE /comments/{id} of several clients   *)
(* at the same time. cs holds one handler invocation for each client; the  *)
(* table is shared by all of them.                                         *)
(***************************************************************************)
StoreClients == {"a", "b"}

\* page and size: the query as strconv.Atoi gives it, 0 when it is missing
StIdle == [pc |-> "idle", op |-> "none",
           req |-> [news_id |-> 0, parent_id |-> {}, text |-> <<>>],
           id |-> 0, page |-> 0, size |-> 0, reply |-> TransportError]

StorePosts ==
    [news_id : {0, 1, 2}, parent_id : {{}, {1}}, text : {<<"h", "i">>}]

StoreIdParams == {<<"x">>, <<"1">>, <<"2">>}
StorePages == {0, 1, 2}
StorePageSizes == {0, 1}

\* OFFSET of the page after the one asked for
PageOffset_NextPage(page, pageSize) == page * pageSize

\* OFFSET of the SELECT: (page-1)*pageSize
PageOffset(page, pageSize) == (page - 1) * pageSize

\* GET /comments?news_id=&page=&page_size=: the replies for the orders in
\* which the SELECT may return rows of one second
GetCommentsPage(newsID, pageArg, sizeArg) ==
    LET page == IF pageArg <= 0 THEN 1 ELSE pageArg
        pageSize == IF sizeArg <= 0 THEN DefaultPageSize ELSE sizeArg
    IN  { LET rows == LimitOffset(s, pageSize, PageOffset(page, pageSize))
          IN  PagedReply(IF rows = <<>> THEN Null
                         ELSE Arr([i \in 1..Len(rows) |-> CommentJSON(rows[i])]),
                         Pagination(page, pageSize, Len(s),
                                    (Len(s) + pageSize - 1) \div pageSize))
          : s \in OrderedByCreatedAtDesc({r \in comments : r.news_id = newsID}) }

\* the database file is new, or holds one comment of an earlier run
InitStore ==
    /\ \E n \in {0, 1} :
          /\ comments = { [id |-> i, news_id |-> 1, parent_id |-> {},
                           text |-> <<"h", "i">>, created_at |-> 0] : i \in 1..n }
          /\ nextId = n
    /\ now = 0
    /\ cs = [c \in StoreClients |-> StIdle]
    /\ gw = GwIdle
    /\ gor = GorIdle
    /\ ch = <<>>

\* POST /comments arrives and its body is decoded
St_Post(c, b) ==
    /\ cs[c].pc = "idle"
    /\ cs' = [cs EXCEPT ![c] = [StIdle EXCEPT !.pc = "received", !.op = "post", !.req = b]]
    /\ UNCHANGED <<comments, nextId, now, gw, gor, ch>>

\* POST /comments: the validation and the check that the parent exists
St_Check(c) ==
    /\ cs[c].pc = "received"
    /\ LET code == ValidateCreate(cs[c].req)
       IN  cs' = [cs EXCEPT ![c] =
                    IF code = StatusOK THEN [@ EXCEPT !.pc = "checked"]
                    ELSE [@ EXCEPT !.pc = "replied", !.reply = TextReply(code)]]
    /\ UNCHANGED <<comments, nextId, now, gw, gor, ch>>

\* St_Insert of a table whose id is INTEGER PRIMARY KEY without
\* AUTOINCREMENT: the id after the largest id stored
St_Insert_MaxRowid(c) ==
    /\ cs[c].pc = "checked"
    /\ nextId < MaxComments
    /\ \E t \in now..(IF now < MaxClock THEN now + 1 ELSE now) :
         LET top == IF comments = {} THEN 0
                    ELSE CHOOSE i \in {r.id : r \in comments} :
                            \A r \in comments : r.id <= i
             row == [id |-> top + 1, news_id |-> cs[c].req.news_id,
                     parent_id |-> cs[c].req.parent_id, text |-> cs[c].req.text,
                     created_at |-> t]
         IN  /\ now' = t
             /\ nextId' = top + 1
             /\ comments' = comments \cup {row}
             /\ cs' = [cs EXCEPT ![c] = [@ EXCEPT !.pc = "replied",
                                 !.reply = Reply(StatusOK, TRUE, CommentJSON(row))]]
    /\ UNCHANGED <<gw, gor, ch>>

\* POST /comments: INSERT, LastInsertId, SELECT of the new row; the id is
\* the one after the largest id the table ever held (AUTOINCREMENT)
St_Insert(c) ==
    /\ cs[c].pc = "checked"
    /\ nextId < MaxComments
    /\ \E t \in now..(IF now < MaxClock THEN now + 1 ELSE now) :
         LET row == [id |-> nextId + 1, news_id |-> cs[c].req.news_id,
                     parent_id |-> cs[c].req.parent_id, text |-> cs[c].req.text,
                     created_at |-> t]
         IN  /\ now' = t
             /\ nextId' = nextId + 1
             /\ comments' = comments \cup {row}
             /\ cs' = [cs EXCEPT ![c] = [@ EXCEPT !.pc = "replied",
                                 !.reply = Reply(StatusOK, TRUE, CommentJSON(row))]]
    /\ UNCHANGED <<gw, gor, ch>>

\* POST /comments when db.Exec fails
St_InsertError(c) ==
    /\ cs[c].pc = "checked"
    /\ cs' = [cs EXCEPT ![c] = [@ EXCEPT !.pc = "replied",
                                         !.reply = TextReply(StatusInternalServerError)]]
    /\ UNCHANGED <<comments, nextId, now, gw, gor, ch>>

\* GET /comments
St_Get(c, newsID, page, pageSize) ==
    /\ cs[c].pc = "idle"
    /\ \E r \in GetCommentsPage(newsID, page, pageSize) :
          cs' = [cs EXCEPT ![c] = [StIdle EXCEPT !.pc = "replied", !.op = "get",
                                       !.id = newsID, !.page = page, !.size = pageSize,
                                       !.reply = r]]
    /\ UNCHANGED <<comments, nextId, now, gw, gor, ch>>

\* DELETE /comments/{id}: the id is parsed and looked up
St_Delete(c, p) ==
    /\ cs[c].pc = "idle"
    /\ LET a == Atoi(p)
           d == [StIdle EXCEPT !.op = "delete", !.id = a.val]
       IN  cs' = [cs EXCEPT ![c] =
                    IF a.err
                    THEN [d EXCEPT !.pc = "replied", !.reply = TextReply(StatusBadRequest)]
                    ELSE IF ~Exists(a.val)
                    THEN [d EXCEPT !.pc = "replied", !.reply = TextReply(StatusNotFound)]
                    ELSE [d EXCEPT !.pc = "found"]]
    /\ UNCHANGED <<comments, nextId, now, gw, gor, ch>>

\* St_DeleteExec of a table whose foreign key deletes the replies with the
\* comment
St_DeleteExec_Cascade(c) ==
    /\ cs[c].pc = "found"
    /\ comments' = {r \in comments : r.id # cs[c].id /\ cs[c].id \notin r.parent_id}
    /\ cs' = [cs EXCEPT ![c] = [@ EXCEPT !.pc = "replied",
                                         !.reply = Reply(StatusOK, TRUE, Str(<<"d">>))]]
    /\ UNCHANGED <<nextId, now, gw, gor, ch>>

\* DELETE /comments/{id}: DELETE FROM comments WHERE id = ?
St_DeleteExec(c) ==
    /\ cs[c].pc = "found"
    /\ comments' = {r \in comments : r.id # cs[c].id}
    /\ cs' = [cs EXCEPT ![c] = [@ EXCEPT !.pc = "replied",
                                         !.reply = Reply(StatusOK, TRUE, Str(<<"d">>))]]
    /\ UNCHANGED <<nextId, now, gw, gor, ch>>

\* DELETE /comments/{id} when db.Exec fails
St_DeleteError(c) ==
    /\ cs[c].pc = "found"
    /\ cs' = [cs EXCEPT ![c] = [@ EXCEPT !.pc = "replied",
                                         !.reply = TextReply(StatusInternalServerError)]]
    /\ UNCHANGED <<comments, nextId, now, gw, gor, ch>>

\* the response is written and the handler returns
St_End(c) ==
    /\ cs[c].pc = "replied"
    /\ cs' = [cs EXCEPT ![c] = StIdle]
    /\ UNCHANGED <<comments, nextId, now, gw, gor, ch>>

NextStore ==
    \/ \E c \in StoreClients, b \in StorePosts : St_Post(c, b)
    \/ \E c \in StoreClients : St_Check(c)
    \/ \E c \in StoreClients : St_Insert(c)
    \/ \E c \in StoreClients : St_InsertError(c)
    \/ \E c \in StoreClients, n \in {1, 2}, page \in StorePages, pageSize \in StorePageSizes :
          St_Get(c, n, page, pageSize)
    \/ \E c \in StoreClients, p \in StoreIdParams : St_Delete(c, p)
    \/ \E c \in StoreClients : St_DeleteExec(c)
    \/ \E c \in StoreClients : St_DeleteError(c)
    \/ \E c \in StoreClients : St_End(c)

SpecStore == InitStore /\ [][NextStore]_vars

(***************************************************************************)
(* News Aggregator, news-aggregator/main.go, called directly. gw holds the *)
(* request and the reply of the handler.                                   *)
(***************************************************************************)
NewsIdle == [pc |-> "idle", op |-> "none", page |-> 0, page_size |-> 0,
             search |-> <<>>, id |-> 0, reply |-> TransportError]

\* page and page_size as strconv.Atoi gives them, 0 when missing
NewsPages == {0, 1, 2, 3, 6, 2^(IntBits - 2) + 1}
NewsPageSizes == {0, 1, 2, 3, 5, 10, MaxInt}
NewsSearches == { <<>>, <<"n", "1">>, <<"N">>, <<"c", "5">>, <<"z">> }

InitNews ==
    /\ comments = {}
    /\ nextId = 0
    /\ now = 0
    /\ cs = CsIdle
    /\ gw = NewsIdle
    /\ gor = GorIdle
    /\ ch = <<>>

\* GET /news
News_GetNews(page, pageSize, search) ==
    /\ gw.pc = "idle"
    /\ gw' = [NewsIdle EXCEPT !.pc = "replied", !.op = "list", !.page = page,
                              !.page_size = pageSize, !.search = search,
                              !.reply = GetNewsHandler(page, pageSize, search)]
    /\ UNCHANGED <<comments, nextId, now, cs, gor, ch>>

\* GET /news/{id}
News_GetNewsByID(id) ==
    /\ gw.pc = "idle"
    /\ gw' = [NewsIdle EXCEPT !.pc = "replied", !.op = "get", !.id = id,
                              !.reply = GetNewsByIDHandler(id)]
    /\ UNCHANGED <<comments, nextId, now, cs, gor, ch>>

\* the response is written
News_End ==
    /\ gw.pc = "replied"
    /\ gw' = NewsIdle
    /\ UNCHANGED <<comments, nextId, now, cs, gor, ch>>

NextNews ==
    \/ \E page \in NewsPages, pageSize \in NewsPageSizes, search \in NewsSearches :
          News_GetNews(page, pageSize, search)
    \/ \E id \in 0..(NumNews + 1) : News_GetNewsByID(id)
    \/ News_End

SpecNews == InitNews /\ [][NextNews]_vars

(***************************************************************************)
(* Censor Service: CensorService of censor-service/main.go, which matches  *)
(* a regular expression, and App.CheckText, which loops over the words.    *)
(* cs holds the CensorService struct, gw the request in progress and the   *)
(* answers given so far.                                                   *)
(***************************************************************************)
MetaChars == {"\\", ".", "+", "*", "?", "(", ")", "|", "[", "]", "{", "}", "^", "$"}

\* regexp.QuoteMeta: a backslash before every metacharacter
RECURSIVE QuoteMeta(_)
QuoteMeta(w) ==
    IF w = <<>> THEN <<>>
    ELSE (IF Head(w) \in MetaChars THEN <<"\\", Head(w)>> ELSE <<Head(w)>>)
            \o QuoteMeta(Tail(w))

\* strings.Join(patterns, "|")
RECURSIVE Join(_)
Join(patterns) ==
    IF patterns = <<>> THEN <<>>
    ELSE IF Len(patterns) = 1 THEN patterns[1]
    ELSE patterns[1] \o <<"|">> \o Join(Tail(patterns))

\* the orders in which range over the map bannedWords may give the words
WordOrders ==
    { o \in [1..Cardinality(bannedWords) -> bannedWords] :
         \A i, j \in DOMAIN o : i # j => o[i] # o[j] }

\* the literal strings of a pattern that is an alternation of quoted words:
\* cur is the alternative read so far
RECURSIVE Alternatives(_, _)
Alternatives(pattern, cur) ==
    IF pattern = <<>> THEN {cur}
    ELSE IF Head(pattern) = "\\" /\ Len(pattern) >= 2
    THEN Alternatives(Tail(Tail(pattern)), Append(cur, pattern[2]))
    ELSE IF Head(pattern) = "|"
    THEN {cur} \cup Alternatives(Tail(pattern), <<>>)
    ELSE Alternatives(Tail(pattern), Append(cur, Head(pattern)))

\* MatchString_Anchored: the whole of s has to match
MatchString_Anchored(pattern, s) == s \in Alternatives(pattern, <<>>)

\* regexp.MatchString: some substring of s matches one of the alternatives
MatchString(pattern, s) ==
    \E i \in 1..(Len(s) + 1) : \E a \in Alternatives(pattern, <<>>) :
        i + Len(a) - 1 <= Len(s) /\ SubSeq(s, i, i + Len(a) - 1) = a

\* POST /check of CensorService: isBanned with the compiled expression
CensorService_CheckHandler(regex, text) ==
    IF MatchString(regex, ToLower(text))
    THEN TextReply(StatusBadRequest)
    ELSE Reply(StatusOK, TRUE, Str(<<"o", "k">>))

forbiddenWords == bannedWords

\* POST /check of App: a loop over forbiddenWords with strings.Contains
CheckText(text) ==
    IF \E word \in forbiddenWords : Contains(ToLower(text), ToLower(word))
    THEN ErrorEnvelope(StatusBadRequest)
    ELSE Reply(StatusOK, TRUE, Absent)

CensorTexts ==
    { <<>>,
      <<"q", "w", "e", "r", "t">>,
      <<"h", "Q", "W", "E", "r", "t", "y", "i">>,
      <<"U+0419", "U+0426", "U+0443", "U+043A", "U+0435", "U+043D">>,
      <<"z", "x", "v", "b", "n", "m">> }

\* the request in progress; gor holds, for each text, the implementations
\* called with it so far and the status codes they answered
CensorIdle == [pc |-> "idle", impl |-> "none", text |-> <<>>, reply |-> TransportError]

\* NewCensorService compiles the expression
InitCensor ==
    /\ \E o \in WordOrders :
          cs = [regex |-> Join([i \in DOMAIN o |-> QuoteMeta(o[i])])]
    /\ gw = CensorIdle
    /\ gor = [t \in CensorTexts |-> {}]
    /\ comments = {}
    /\ nextId = 0
    /\ now = 0
    /\ ch = <<>>

\* POST /check handled by CensorService.CheckHandler
Censor_CheckHandler(text) ==
    /\ gw.pc = "idle"
    /\ LET r == CensorService_CheckHandler(cs.regex, text)
       IN  /\ gw' = [pc |-> "replied", impl |-> "regex", text |-> text, reply |-> r]
           /\ gor' = [gor EXCEPT ![text] = @ \cup {[impl |-> "regex", code |-> r.code]}]
    /\ UNCHANGED <<comments, nextId, now, cs, ch>>

\* POST /check handled by App.CheckText
Censor_CheckText(text) ==
    /\ gw.pc = "idle"
    /\ LET r == CheckText(text)
       IN  /\ gw' = [pc |-> "replied", impl |-> "loop", text |-> text, reply |-> r]
           /\ gor' = [gor EXCEPT ![text] = @ \cup {[impl |-> "loop", code |-> r.code]}]
    /\ UNCHANGED <<comments, nextId, now, cs, ch>>

\* the response is written
Censor_End ==
    /\ gw.pc = "replied"
    /\ gw' = CensorIdle
    /\ UNCHANGED <<comments, nextId, now, cs, gor, ch>>

NextCensor ==
    \/ \E text \in CensorTexts : Censor_CheckHandler(text)
    \/ \E text \in CensorTexts : Censor_CheckText(text)
    \/ Censor_End

SpecCensor == InitCensor /\ [][NextCensor]_vars

(***************************************************************************)
(* Properties.                                                             *)
(***************************************************************************)
GetDone == gw.op = "get" /\ gw.pc = "done"
PostDone == gw.op = "post" /\ gw.pc = "done"
Success == gw.resp.status = "success"
\* no row was inserted since the request began
NothingPersisted == nextId = gw.startId

\* C1: GET /news/{id} answers with success only when the call to the News
\* Aggregator and the call to the Comment Service both succeeded (no transport
\* error, status 200, an envelope of the expected shape); a request with a
\* failed call never gets a success answer, that is, a partial view.
C1_AllOrNothingJoin ==
    (GetDone /\ Success) => (gw.seen.news.ok /\ gw.seen.comments.ok)

\* C2: when the Censor Service answers POST /comment's text with a status
\* other than 200, no request is sent to the Comment Service, no row is
\* inserted, and the Gateway answers 400.
C2_RejectedNeverReachesStore ==
    (gw.op = "post" /\ gw.seen.censor.recv /\ ~gw.seen.censor.err
                    /\ gw.seen.censor.code # StatusOK)
        => /\ gw.calls.store = 0
           /\ cs.pc = "idle"
           /\ NothingPersisted
           /\ gw.pc = "done"
           /\ gw.resp.code = StatusBadRequest

C2_Witness ==
    /\ PostDone /\ isBanned(gw.body.text)
    /\ gw.seen.censor.code = StatusBadRequest
    /\ gw.resp.code = StatusBadRequest /\ gw.calls.store = 0

\* C3: within one POST /comment the request to the Comment Service is sent
\* only after the Censor Service has answered with status 200, and while the
\* call to the Censor Service is in flight the Comment Service has no request
\* of this POST.
C3_PersistAfterModeration ==
    gw.op = "post" =>
        /\ (gw.calls.store > 0 \/ cs.pc # "idle") =>
               (gw.seen.censor.recv /\ gw.seen.censor.ok)
        /\ gw.pc = "censor" => (gw.calls.store = 0 /\ cs.pc = "idle")

C3_Witness ==
    /\ gw.op = "post" /\ gw.calls.censor = 1 /\ gw.seen.censor.ok
    /\ gw.calls.store = 1 /\ cs.pc = "replied" /\ cs.reply.code = StatusOK

\* C4: in GET /news/{id} both downstream requests are issued before either of
\* them completes: once the reply of one call is in, the other call has been
\* sent.
C4_BothIssuedBeforeEitherCompletes ==
    gw.op = "get" =>
        /\ gw.seen.news.recv => gw.calls.comments > 0
        /\ gw.seen.comments.recv => gw.calls.news > 0

\* C5: a success answer of GET /news/{id} carries an article that is not null
\* and a comments sequence that is neither missing nor null.
C5_SuccessHasArticleAndComments ==
    (GetDone /\ Success) =>
        /\ gw.resp.article.t \notin {"absent", "null"}
        /\ gw.resp.comments.t \notin {"absent", "null"}

\* C6: GET /news/{id} with an id that is no integer or is not positive is
\* answered 400 at once, and no request is sent to the News Aggregator or to
\* the Comment Service.
C6_InvalidIdRejected ==
    (gw.op = "get" /\ (Atoi(gw.param).err \/ Atoi(gw.param).val <= 0))
        => /\ gw.calls.news = 0 /\ gw.calls.comments = 0
           /\ gw.pc = "done" /\ gw.resp.code = StatusBadRequest

\* C7: in POST /comment a transport failure of the call to the Censor Service
\* is answered 500 and a rejection of the text (status 400 from the Censor
\* Service) is answered 400, so the two differ; in both cases nothing is sent
\* to the Comment Service and no row is inserted.
C7_UnavailableIsNotRejected ==
    (gw.op = "post" /\ gw.seen.censor.recv) =>
        /\ gw.seen.censor.err =>
              (gw.pc = "done" /\ gw.resp.code = StatusInternalServerError)
        /\ (~gw.seen.censor.err /\ gw.seen.censor.code = StatusBadRequest) =>
              (gw.pc = "done" /\ gw.resp.code = StatusBadRequest)
        /\ (gw.seen.censor.err \/ gw.seen.censor.code = StatusBadRequest) =>
              (gw.calls.store = 0 /\ cs.pc = "idle" /\ NothingPersisted)

C7_Witness ==
    /\ PostDone /\ gw.seen.censor.recv /\ gw.seen.censor.err
    /\ gw.resp.code = StatusInternalServerError /\ gw.calls.store = 0

\* a collaborator call of the request has failed: a transport error, a status
\* other than 200 (other than the Censor Service's 400, the rejection of the
\* text) or an envelope that has not the expected shape
CallFailed ==
    \/ gw.seen.news.recv /\ ~gw.seen.news.ok
    \/ gw.seen.comments.recv /\ ~gw.seen.comments.ok
    \/ gw.seen.censor.recv /\ (gw.seen.censor.err
                                \/ gw.seen.censor.code \notin {StatusOK, StatusBadRequest})
    \/ gw.seen.store.recv /\ ~gw.seen.store.ok

\* C8: a request of which a collaborator call failed (connection refused,
\* timeout, a status that is not 2xx, a malformed envelope) is answered 500; so
\* are a reply of the Censor Service with a status such as 500 and a failure of
\* the Comment Service to persist the comment.
C8_DownstreamUnavailableIs500 ==
    (gw.pc = "done" /\ CallFailed) => gw.resp.code = StatusInternalServerError

\* C9: within one request each collaborator endpoint is called at most once,
\* also when a call fails.
C9_NoRetries ==
    /\ gw.calls.news <= 1
    /\ gw.calls.comments <= 1
    /\ gw.calls.censor <= 1
    /\ gw.calls.store <= 1

C9_Witness ==
    /\ GetDone /\ gw.impl = "handler"
    /\ gw.seen.news.recv /\ gw.seen.news.err
    /\ gw.calls.news = 1 /\ gw.calls.comments = 1
    /\ gw.resp.code = StatusInternalServerError

\* the step in which the Comment Service ends the first part of POST /comments
\* for a request whose parent_id names no row
RejectsMissingParent ==
    (cs.pc = "received" /\ cs'.pc # "received"
                        /\ \E p \in cs.req.parent_id : ~Exists(p))
        => /\ cs'.pc = "replied"
           /\ cs'.reply.code = StatusBadRequest
           /\ comments' = comments
           /\ nextId' = nextId

\* C10: a comment whose parent_id names no stored comment is rejected by the
\* Comment Service with 400 and no row is inserted; the Gateway relays the
\* 400 of the Comment Service as its own answer, which is no success.
C10_MissingParentRejected ==
    /\ [][RejectsMissingParent]_vars
    /\ []((gw.op = "post" /\ cs.pc = "replied" /\ cs.reply.code = StatusBadRequest)
              => NothingPersisted)
    /\ []((PostDone /\ gw.seen.store.recv /\ ~gw.seen.store.err
                    /\ gw.seen.store.code = StatusBadRequest)
              => (gw.resp.code = StatusBadRequest /\ ~Success))

C10_Witness ==
    /\ PostDone /\ gw.body.news_id > 0 /\ gw.body.text # <<>>
    /\ \E p \in gw.body.parent_id : ~Exists(p)
    /\ gw.seen.store.recv /\ gw.seen.store.code = StatusBadRequest
    /\ gw.resp.code = StatusBadRequest /\ NothingPersisted

\* the step in which the Comment Service ends POST /comments after the parent
\* check without a database error: the row is stored as requested, whatever
\* has become of the parent since the check
InsertIgnoresParent ==
    (cs.pc = "checked" /\ cs'.pc = "replied"
                       /\ cs'.reply.code # StatusInternalServerError)
        => /\ nextId' = nextId + 1
           /\ \E r \in comments' \ comments :
                 r.id = nextId' /\ r.parent_id = cs.req.parent_id

\* C11: the Comment Service checks the parent and inserts the row in two
\* steps with no transaction around them: a request that passed the check
\* named a row that was there, the INSERT that follows stores the row without
\* looking at the parent again, so a DELETE of the parent between the two
\* leaves a stored comment whose parent_id names no row.
C11_CheckThenInsertRace ==
    /\ [][InsertIgnoresParent]_vars
    /\ [](cs.pc = "checked" => \A p \in cs.req.parent_id : p \in 1..nextId)

C11_Witness ==
    /\ cs.pc = "replied" /\ cs.orphan /\ cs.reply.code = StatusOK
    /\ \E r \in comments :
          /\ r.id = nextId /\ r.parent_id = cs.req.parent_id /\ r.parent_id # {}
          /\ \A p \in r.parent_id : ~Exists(p)

\* C12: the page_size the Gateway forwards for GET /news is the one sent when
\* that is a number in 1..100, and 10 for every other input (none, not a
\* number, 0, negative, above 100).
C12_PageSizeClamped ==
    (gw.op = "list" /\ gw.calls.news > 0) =>
        LET v == Atoi(gw.query.page_size)
        IN  gw.fwd.page_size = IF ~v.err /\ v.val \in 1..MaxPageSize THEN v.val
                               ELSE DefaultNewsPageSize

\* C13: when the News Aggregator answers GET /news with a success envelope,
\* the Gateway's response has that envelope's status, data and pagination
\* block (page, page_size, total, page_count).
C13_EnvelopeRelayed ==
    (gw.op = "list" /\ gw.pc = "done" /\ gw.seen.news.recv
                    /\ Usable(gw.seen.news.reply))
        => /\ gw.resp.status = gw.seen.news.reply.status
           /\ gw.resp.data = OmitEmpty(gw.seen.news.reply.data)
           /\ gw.resp.pagination = gw.seen.news.reply.pagination

\* the comments of the response of GET /news/{id}, and those of the Comment
\* Service's reply
RespComments == IF gw.resp.comments.t = "arr" THEN gw.resp.comments.a ELSE <<>>
ReplyComments ==
    IF gw.seen.comments.reply.data.t = "arr" THEN gw.seen.comments.reply.data.a ELSE <<>>

\* the fields of a comment, decoded (struct Comment) or as JSON
CommentView(c) ==
    IF "o" \in DOMAIN c
    THEN [id |-> c.o["id"].n, news_id |-> c.o["news_id"].n, text |-> c.o["text"].s,
          parent_id |-> IF "parent_id" \in DOMAIN c.o THEN {c.o["parent_id"].n} ELSE {},
          created_at |-> ParseTime(c.o["created_at"].s)]
    ELSE [id |-> c.id, news_id |-> c.news_id, text |-> c.text,
          parent_id |-> c.parent_id,
          created_at |-> CHOOSE t \in c.created_at : TRUE]

GetSucceeded == GetDone /\ Success /\ gw.seen.comments.ok

\* C14: a success answer of GET /news/{id} holds as many comments as the
\* Comment Service has rows for the article (the total its reply reports).
C14_AllCommentsReturned ==
    GetSucceeded => Len(RespComments) = gw.seen.comments.reply.pagination.total

\* C15: every comment of a success answer of GET /news/{id} has the news_id
\* that was requested.
C15_CommentsBelongToArticle ==
    GetSucceeded =>
        \A i \in 1..Len(RespComments) : CommentView(RespComments[i]).news_id = gw.id

C15_Witness ==
    /\ GetSucceeded /\ Len(RespComments) >= 1
    /\ \E r \in comments : r.news_id # gw.id

\* C16: the comments of a success answer of GET /news/{id} are the elements
\* of the Comment Service's reply, in the reply's order, none dropped, added
\* or moved.
C16_CommentsVerbatim ==
    GetSucceeded =>
        [i \in 1..Len(RespComments) |-> CommentView(RespComments[i])]
            = [i \in 1..Len(ReplyComments) |-> CommentView(ReplyComments[i])]

C16_Witness ==
    /\ GetSucceeded /\ gw.impl = "handler" /\ Len(RespComments) >= 2
    /\ CommentView(RespComments[1]).created_at > CommentView(RespComments[2]).created_at

\* a reply of GET /news/{id}'s calls came with status 200 and an envelope
\* whose data has not the expected shape
ShapeMismatch ==
    \E k \in {"news", "comments"} :
        gw.seen[k].recv /\ Usable(gw.seen[k].reply) /\ ~gw.seen[k].ok

\* C17: when the data of a downstream envelope has not the expected shape,
\* GET /news/{id} is answered 500 as for a transport failure, and the handler
\* completes the request (the process does not stop).
C17_ShapeMismatchIsServerError ==
    gw.op = "get" =>
        /\ gw.pc # "crashed"
        /\ (gw.pc = "done" /\ ShapeMismatch) =>
               gw.resp.code = StatusInternalServerError

\* C18: POST /comment with an empty text or a text of more than 1000
\* characters is answered 400 by the Gateway and neither the Censor Service
\* nor the Comment Service is called.
C18_BadTextNoDownstreamCall ==
    (gw.op = "post" /\ gw.body.parsable
                    /\ (Len(gw.body.text) = 0 \/ Len(gw.body.text) > MaxTextLen))
        => /\ gw.calls.censor = 0 /\ gw.calls.store = 0
           /\ gw.pc = "done" /\ gw.resp.code = StatusBadRequest

\* C19: the Comment Service accepts the text of a comment (with a valid
\* news_id and no parent) exactly when it has 1 to 1000 characters: such a
\* text goes on to the INSERT, an empty one or one of 1001 characters or more
\* is answered 400 and no row is inserted.
C19_TextLengthBoundary ==
    (cs.pc \in {"checked", "replied"} /\ cs.req.news_id > 0 /\ cs.req.parent_id = {})
        => IF Len(cs.req.text) \in 1..MaxTextLen
           THEN ~(cs.pc = "replied" /\ cs.reply.code = StatusBadRequest)
           ELSE /\ cs.pc = "replied" /\ cs.reply.code = StatusBadRequest
                /\ NothingPersisted

\* C20: when the News Aggregator answers GET /news/{id} with 404, the Gateway
\* answers 404.
C20_NotFoundRelayed ==
    (GetDone /\ gw.seen.news.recv /\ ~gw.seen.news.err
             /\ gw.seen.news.code = StatusNotFound)
        => gw.resp.code = StatusNotFound

HandlerGet == gw.impl = "handler" /\ gw.op = "get"

\* both goroutines of the request ended with an error result
BothFailed ==
    /\ gw.seen.news.recv /\ NewsResult(gw.seen.news.reply).tag = "err"
    /\ gw.seen.comments.recv /\ CommentsResult(gw.seen.comments.reply).tag = "err"

\* C21: when both calls of GET /news/{id} fail, the handler answers 500 with
\* the error of the result it received first and returns; the other result
\* stays unread in the channel.
C21_FirstErrorOnly ==
    (HandlerGet /\ gw.pc = "done" /\ BothFailed)
        => /\ gw.resp.code = StatusInternalServerError
           /\ gw.i = 0
           /\ gw.resp.errFrom \in {"news", "comments"}
           /\ Len(ch) = 1 /\ ch[1].tag = "err" /\ ch[1].from # gw.resp.errFrom

C21_Witness ==
    /\ HandlerGet /\ gw.pc = "done" /\ BothFailed
    /\ gw.resp.errFrom = "comments" /\ Len(ch) = 1 /\ ch[1].from = "news"

\* C22: no handler of the Gateway waits for a downstream call whose deadline
\* has passed.
C22_ExpiredCallAbandoned ==
    gw.overdue => gw.pc \notin AppWaiting

\* C23: when the Comment Service answered POST /comment's request with its
\* success envelope, the Gateway's response is 200 with that envelope's status
\* and data: the id the Comment Service gave the row, its created_at, and the
\* news_id, parent_id and text of the request.
C23_StoreEnvelopeVerbatim ==
    (PostDone /\ gw.seen.store.recv /\ Usable(gw.seen.store.reply))
        => LET d == gw.seen.store.reply.data
           IN  /\ gw.resp.code = StatusOK
               /\ gw.resp.status = gw.seen.store.reply.status
               /\ gw.resp.status = "success"
               /\ gw.resp.data = d
               /\ d.t = "obj"
               /\ d.o["id"] = Num(gw.startId + 1)
               /\ d.o["news_id"] = Num(gw.body.news_id)
               /\ d.o["text"] = Str(gw.body.text)
               /\ "created_at" \in DOMAIN d.o
               /\ IF gw.body.parent_id = {} THEN "parent_id" \notin DOMAIN d.o
                  ELSE "parent_id" \in DOMAIN d.o
                       /\ d.o["parent_id"].n \in gw.body.parent_id

C23_Witness ==
    /\ PostDone /\ Success /\ gw.impl = "handler"
    /\ gw.body.parent_id # {}
    /\ gw.resp.data.t = "obj" /\ gw.resp.data.o["id"].n = nextId

\* a pagination block as the claim describes it
WellFormedPagination(p) ==
    /\ p.page >= 1
    /\ p.page_size \in 1..MaxPageSize
    /\ p.total >= 0
    /\ p.page_count >= 0
    /\ p.page_count = (p.total + p.page_size - 1) \div p.page_size

\* C24: of GET /news/{id} requests handled at the same time, each reads only
\* the results its own goroutines sent: its response holds the article and
\* the comments of its own id, or the error of one of its own calls.
C24_RequestIsolation ==
    \A k \in Requests :
        /\ gw[k].from \subseteq {k}
        /\ (gw[k].pc = "done" /\ gw[k].resp.code = StatusOK)
              => /\ gw[k].resp.article.t = "obj"
                 /\ gw[k].resp.article.o["id"].n = gw[k].id
                 /\ gw[k].resp.comments.t = "arr"
                      => \A i \in 1..Len(gw[k].resp.comments.a) :
                             gw[k].resp.comments.a[i].news_id = gw[k].id

C24_Witness ==
    \E k, j \in Requests :
        /\ gw[k].pc = "done" /\ gw[k].resp.code = StatusOK /\ gw[k].id = 1
        /\ gw[k].resp.comments.t = "arr"
        /\ gw[j].id = 2 /\ gw[j].pc = "join" /\ gw[j].from = {j}
        /\ ch[ChanOf(j)] # <<>>

\* C25: every pagination block a service writes (the News Aggregator's and
\* the Gateway's for GET /news, the Comment Service's for GET /comments) has
\* page >= 1, page_size in 1..100, total >= 0 and
\* page_count = ceil(total / page_size).
C25_PaginationArithmetic ==
    /\ (gw.op = "list" /\ gw.seen.news.recv
                       /\ gw.seen.news.reply.pagination.t = "pagination")
          => WellFormedPagination(gw.seen.news.reply.pagination)
    /\ (gw.op = "list" /\ gw.resp.pagination.t = "pagination")
          => WellFormedPagination(gw.resp.pagination)
    /\ (gw.op = "get" /\ gw.seen.comments.recv
                      /\ gw.seen.comments.reply.pagination.t = "pagination")
          => WellFormedPagination(gw.seen.comments.reply.pagination)

C27_UnparsableBodyRejected ==
    (gw.op = "post" /\ ~gw.body.parsable)
        => /\ gw.pc = "done" /\ gw.resp.code = StatusBadRequest
           /\ gw.calls.censor = 0 /\ gw.calls.store = 0
           /\ cs.pc = "idle" /\ NothingPersisted

C27_Witness ==
    /\ PostDone /\ ~gw.body.parsable /\ gw.impl = "handler"
    /\ gw.resp.code = StatusBadRequest

\* a step of a GET /news/{id} request leaves the Comment Service's table as
\* it is
GetStepFrame ==
    ((gw.op = "get" \/ gw'.op = "get") /\ <<gw, gor, ch>>' # <<gw, gor, ch>>)
        => (comments' = comments /\ nextId' = nextId)

\* C28: GET /news/{id} changes nothing in the Comment Service's table,
\* whatever its outcome, and once the response is written the Gateway holds
\* neither the article nor the comments of the request.
C28_GetIsReadOnly ==
    /\ [][GetStepFrame]_vars
    /\ [](gw.pc = "idle" =>
            (gw.news = Absent /\ gw.cmts = <<>> /\ gw.resp = NoResp /\ ch = <<>>))

C28_Witness ==
    /\ GetSucceeded /\ gw.impl = "handler"
    /\ gw.news # Absent /\ gw.cmts # <<>> /\ comments # {}

\* C29: GET /health is answered 200 with status "ok" and no downstream call,
\* whatever the Comment Service holds.
C29_HealthAlwaysOk ==
    gw.op = "health"
        => /\ gw.pc = "done"
           /\ gw.resp.code = StatusOK /\ gw.resp.status = "ok"
           /\ \A k \in DOMAIN gw.calls : gw.calls[k] = 0 /\ ~gw.seen[k].recv

C29_Witness ==
    /\ gw.op = "health" /\ gw.pc = "done" /\ gw.resp.status = "ok"
    /\ comments # {} /\ nextId > 0

\* results the receive loop has taken from the channel
Reads ==
    IF gw.pc = "done" /\ gw.resp.code = StatusInternalServerError
    THEN gw.i + 1 ELSE gw.i

\* C30: in GET /news/{id} each goroutine that has ended has sent exactly one
\* result (no goroutine ends without sending), the channel never holds more
\* than its capacity of 2, so no send waits, also after the handler returned
\* on the first error.
C30_OneResultEach ==
    (HandlerGet /\ gw.pc # "idle")
        => /\ gor.news # "panic" /\ gor.comments # "panic"
           /\ Len(ch) <= ChanCap
           /\ Len(ch) + Reads = Cardinality({k \in DOMAIN gor : gor[k] = "done"})

(***************************************************************************)
(* GET /news/{id} of api-gateway/main.go under fair scheduling: the Go     *)
(* scheduler runs every goroutine that can run, and client.Get of a client *)
(* with Timeout 10s returns with a reply or with an error.                 *)
(***************************************************************************)
GetFairness ==
    /\ WF_vars(NewsGoroutine_Get)
    /\ WF_vars(\E r \in NewsReplies(gw.id) : NewsGoroutine_Done(r))
    /\ WF_vars(CommentsGoroutine_Get)
    /\ WF_vars(\E r \in CommentsReplies(gw.id) : CommentsGoroutine_Done(r))
    /\ WF_vars(GetNewsWithCommentsHandler_Recv)

SpecLive == Init /\ [][Next]_vars /\ GetFairness

\* C31: when both downstream calls of GET /news/{id} return, the handler that
\* waits on the result channel eventually writes a response.
C31_JoinTerminates ==
    (HandlerGet /\ gw.pc = "join") ~> (gw.pc = "done")

\* a request handled by one of the three handlers of api-gateway/main.go
HandlerRequest == gw.impl = "handler" /\ gw.op \in {"list", "get", "post"}

\* C32: a request of GetNewsHandler, GetNewsWithCommentsHandler or
\* CreateCommentHandler never ends without a response, nothing is written
\* before the handler's last step, and the response written then is one
\* response with a status code.
C32_ExactlyOneOutcome ==
    HandlerRequest
        => /\ gw.pc # "crashed"
           /\ gw.pc # "done" => gw.resp = NoResp
           /\ gw.pc = "done" => gw.resp.code # 0

\* C33: every stored comment with a parent_id names a stored comment of the
\* same article with a smaller id.
C33_CommentsFormForest ==
    \A r \in comments : \A p \in r.parent_id :
        \E q \in comments : q.id = p /\ q.news_id = r.news_id /\ q.id < r.id

\* a step that stores rows gives each an id above every id the table held
IdStep ==
    /\ nextId' >= nextId
    /\ \A r \in comments' \ comments :
          /\ r.id > nextId
          /\ \A q \in comments : r.id > q.id

\* C34: every id assigned by a create is greater than 0 and greater than
\* every id assigned before, also those of deleted comments; no two stored
\* comments share an id.
C34_IdsNeverReused ==
    /\ [](\A r \in comments :
             /\ r.id \in 1..nextId
             /\ \A q \in comments : q.id = r.id => q = r)
    /\ [][IdStep]_vars

C34_Witness ==
    \E c, d \in StoreClients :
        /\ cs[c].op = "post" /\ cs[c].pc = "replied" /\ cs[c].reply.code = StatusOK
        /\ cs[c].reply.data.o["id"] = Num(2)
        /\ cs[d].op = "delete" /\ cs[d].pc = "replied" /\ cs[d].reply.code = StatusOK
        /\ cs[d].id = 1
        /\ ~Exists(1) /\ Exists(2)

\* the steps of DELETE /comments/{id} of every client
DeleteStep ==
    \A c \in StoreClients :
        /\ (cs[c].pc = "idle" /\ cs'[c].op = "delete")
              => /\ comments' = comments
                 /\ cs'[c].pc = "found" => Exists(cs'[c].id)
                 /\ (cs'[c].reply.code # StatusBadRequest /\ ~Exists(cs'[c].id))
                       => (cs'[c].pc = "replied" /\ cs'[c].reply.code = StatusNotFound)
        /\ (cs[c].pc = "found" /\ cs'[c].pc = "replied" /\ cs'[c].reply.code = StatusOK)
              => comments' = comments \ {r \in comments : r.id = cs[c].id}

\* C35: DELETE /comments/{id} of an id that is not stored answers 404 and
\* leaves the table as it is; of a stored id it removes the comment with
\* that id and no other, its replies stay.
C35_DeleteRemovesOnlyTarget == [][DeleteStep]_vars

C35_Witness ==
    \E c \in StoreClients :
        /\ cs[c].op = "delete" /\ cs[c].pc = "replied" /\ cs[c].reply.code = StatusOK
        /\ ~Exists(cs[c].id)
        /\ \E r \in comments : cs[c].id \in r.parent_id

\* the rows of the pages p..last of one SELECT order
RECURSIVE PagesFrom(_, _, _, _)
PagesFrom(s, pageSize, p, last) ==
    IF p > last THEN <<>>
    ELSE LimitOffset(s, pageSize, PageOffset(p, pageSize))
            \o PagesFrom(s, pageSize, p + 1, last)

Occurrences(s, x) == Cardinality({i \in 1..Len(s) : s[i] = x})

\* C36: a comment that a POST /comments stored is, while it is stored,
\* returned with the id, news_id, parent_id and text of the POST's reply
\* exactly once by the pages 1..page_count of GET /comments of its article,
\* and by no page of another article.
C36_CreateReadRoundTrip ==
    /\ \A c \in StoreClients :
          (cs[c].op = "post" /\ cs[c].pc = "replied" /\ cs[c].reply.code = StatusOK)
             => \A r \in comments :
                   r.id = cs[c].reply.data.o["id"].n
                      => /\ CommentJSON(r) = cs[c].reply.data
                         /\ r.news_id = cs[c].req.news_id
                         /\ r.parent_id = cs[c].req.parent_id
                         /\ r.text = cs[c].req.text
    /\ \A n \in {1, 2}, pageSize \in {1, 2, DefaultPageSize} :
          \A s \in OrderedByCreatedAtDesc({r \in comments : r.news_id = n}) :
             LET pageCount == (Len(s) + pageSize - 1) \div pageSize
                 all == PagesFrom(s, pageSize, 1, pageCount)
                 json == [i \in 1..Len(all) |-> CommentJSON(all[i])]
             IN  \A r \in comments :
                    Occurrences(json, CommentJSON(r)) = IF r.news_id = n THEN 1 ELSE 0

C36_Witness ==
    \E c, d \in StoreClients :
        /\ cs[c].op = "post" /\ cs[c].pc = "replied" /\ cs[c].reply.code = StatusOK
        /\ cs[d].op = "get" /\ cs[d].pc = "replied"
        /\ cs[d].id = cs[c].req.news_id /\ cs[d].page = 2 /\ cs[d].size = 1
        /\ cs[d].reply \in GetCommentsPage(cs[d].id, 2, 1)
        /\ cs[d].reply.data = Arr(<<cs[c].reply.data>>)

\* C37: for page >= 1 and page_size >= 1 GET /news of the News Aggregator
\* answers with the articles of the filtered catalog from
\* min((page-1)*page_size, len) to min(start+page_size, len), at most
\* page_size of them, and with total = len.
C37_ListingSlice ==
    (gw.pc = "replied" /\ gw.op = "list" /\ gw.page >= 1 /\ gw.page_size >= 1)
        => LET filtered == FilterNews(gw.search)
               start == Min((gw.page - 1) * gw.page_size, Len(filtered))
               end == Min(start + gw.page_size, Len(filtered))
           IN  /\ gw.reply.code = StatusOK
               /\ gw.reply.pagination.t = "pagination"
               /\ gw.reply.pagination.total = Len(filtered)
               /\ filtered # <<>>
                    => /\ gw.reply.data = Arr(SubSeq(filtered, start + 1, end))
                       /\ Len(gw.reply.data.a) <= gw.page_size

\* C38: every answer of POST /check, of the implementation with the regular
\* expression and of the one with the loop, after whatever calls came before,
\* is 400 when the lower-cased text contains a banned word and 200 when it
\* does not.
C38_ModeratorVerdict ==
    \A t \in CensorTexts : \A v \in gor[t] :
        v.code = IF \E w \in bannedWords : Contains(ToLower(t), w)
                 THEN StatusBadRequest ELSE StatusOK

C38_Witness ==
    /\ gor[<<"h", "Q", "W", "E", "r", "t", "y", "i">>]
          = {[impl |-> "regex", code |-> StatusBadRequest],
             [impl |-> "loop", code |-> StatusBadRequest]}
    /\ gor[<<"q", "w", "e", "r", "t">>]
          = {[impl |-> "regex", code |-> StatusOK], [impl |-> "loop", code |-> StatusOK]}
    /\ gw.pc = "replied" /\ gw.reply.code = StatusBadRequest
    /\ gw.text = <<"U+0419", "U+0426", "U+0443", "U+043A", "U+0435", "U+043D">>

====
